---- MODULE Spec2Model ----
(***************************************************************************)
(* Model of the SSH peer transport (mercurial/sshpeer.py) and of the       *)
(* command batching demo (tests/test-batching.py).                         *)
(*                                                                         *)
(* Byte strings are sequences of character codes (ASCII), so that the      *)
(* textual conversions of the code (replace, split, "%d" formatting,       *)
(* int() parsing, chr(ord(c) + 1)) are computed as the code computes them. *)
(***************************************************************************)
EXTENDS Integers, Sequences, FiniteSets, TLC

\* Character codes used by the wire formats.
NL == 10
SP == 32
COMMA == 44
COLON == 58
SEMI == 59
EQ == 61
QMARK == 63
AMP == 38

(***************************************************************************)
(* Python string primitives                                                *)
(***************************************************************************)

\* All sequences over S of length 0..n.
RECURSIVE StrOf(_, _)
StrOf(S, n) ==
    IF n = 0 THEN {<<>>}
    ELSE LET shorter == StrOf(S, n - 1)
         IN  shorter \cup {Append(s, c) : s \in {t \in shorter : Len(t) = n - 1}, c \in S}

StartsWith(s, p) == Len(s) >= Len(p) /\ SubSeq(s, 1, Len(p)) = p

\* Concatenation of pieces[lo..hi], by halving.
RECURSIVE ConcatRange(_, _, _)
ConcatRange(pieces, lo, hi) ==
    IF lo > hi THEN <<>>
    ELSE IF lo = hi THEN pieces[lo]
    ELSE LET mid == (lo + hi) \div 2
         IN  ConcatRange(pieces, lo, mid) \o ConcatRange(pieces, mid + 1, hi)

Concat(pieces) == ConcatRange(pieces, 1, Len(pieces))

\* str.replace(old, new) for old of one or two characters: the occurrences
\* replaced are the leftmost non-overlapping ones, found in one pass.  An
\* occurrence at i is taken unless the one at i - 1 was; within a block of
\* occurrences at adjacent positions every second one is taken.
Replace(s, old, new) ==
    LET m == Len(old)
        n == Len(s)
        Match(i) == i >= 1 /\ i + m - 1 <= n /\ SubSeq(s, i, i + m - 1) = old
        Before(i) == {j \in 1..(i - 1) : ~Match(j)}
        LastMiss(i) == IF Before(i) = {} THEN 0
                       ELSE CHOOSE j \in Before(i) : \A k \in Before(i) : k <= j
        Taken(i) == Match(i) /\ (m = 1 \/ (i - 1 - LastMiss(i)) % 2 = 0)
        piece(i) == IF Taken(i) THEN new
                    ELSE IF m = 2 /\ Taken(i - 1) THEN <<>>
                    ELSE <<s[i]>>
    IN  Concat([i \in 1..n |-> piece(i)])

\* The positions of character c in s, and the k-th of them.
Positions(s, c) == {i \in 1..Len(s) : s[i] = c}
NthPosition(s, c, k) ==
    CHOOSE p \in Positions(s, c) : Cardinality({q \in Positions(s, c) : q <= p}) = k

\* Index of the first occurrence of character c in s, 0 when absent.
IndexOf(s, c) == IF Positions(s, c) = {} THEN 0 ELSE NthPosition(s, c, 1)

\* str.split(sep) for a one-character separator: always at least one piece.
Split(s, c) ==
    LET n == Cardinality(Positions(s, c))
        cut(k) == IF k = 0 THEN 0
                  ELSE IF k = n + 1 THEN Len(s) + 1
                  ELSE NthPosition(s, c, k)
    IN  [k \in 1..(n + 1) |-> SubSeq(s, cut(k - 1) + 1, cut(k) - 1)]

\* str.split(sep, 1): at most two pieces.
Split1(s, c) ==
    LET i == IndexOf(s, c)
    IN  IF i = 0 THEN <<s>>
        ELSE <<SubSeq(s, 1, i - 1), SubSeq(s, i + 1, Len(s))>>

\* sep.join(pieces)
Join(pieces, sep) ==
    Concat([k \in 1..(2 * Len(pieces) - 1) |->
              IF k % 2 = 1 THEN pieces[(k + 1) \div 2] ELSE sep])

(***************************************************************************)
(* tests/test-batching.py: argument escaping                               *)
(***************************************************************************)

\* A variant that escapes the escape character last.
escapearg_colonlast(plain) ==
    Replace(Replace(Replace(Replace(plain,
        <<COMMA>>, <<COLON, COMMA>>),
        <<SEMI>>, <<COLON, SEMI>>),
        <<EQ>>, <<COLON, EQ>>),
        <<COLON>>, <<COLON, COLON>>)

escapearg(plain) ==
    Replace(Replace(Replace(Replace(plain,
        <<COLON>>, <<COLON, COLON>>),
        <<COMMA>>, <<COLON, COMMA>>),
        <<SEMI>>, <<COLON, SEMI>>),
        <<EQ>>, <<COLON, EQ>>)

unescapearg(escaped) ==
    Replace(Replace(Replace(Replace(escaped,
        <<COLON, EQ>>, <<EQ>>),
        <<COLON, SEMI>>, <<SEMI>>),
        <<COLON, COMMA>>, <<COMMA>>),
        <<COLON, COLON>>, <<COLON>>)

(***************************************************************************)
(* tests/test-batching.py: the demo wire format                            *)
(***************************************************************************)

\* Command and argument names, as they appear on the wire.
FOO == <<102, 111, 111>>                      \* 'foo'
BAR == <<98, 97, 114>>                        \* 'bar'
GREET == <<103, 114, 101, 101, 116>>          \* 'greet'
BATCH == <<98, 97, 116, 99, 104>>             \* 'batch'
CMDS == <<99, 109, 100, 115>>                 \* 'cmds'
ONE == <<111, 110, 101>>                      \* 'one'
TWO == <<116, 119, 111>>                      \* 'two'
ARGB == <<98>>                                \* 'b'
ARGA == <<97>>                                \* 'a'
ARGNAME == <<110, 97, 109, 101>>              \* 'name'

\* Outcome of a Python call: a value, or a raised exception.
Ok(v) == [ok |-> TRUE, val |-> v]
Raised(e) == [ok |-> FALSE, val |-> e]

\* dict(pairs): a later pair overrides an earlier one with the same key.
EmptyDict == [k \in {} |-> <<>>]
RECURSIVE DictOf(_)
DictOf(pairs) ==
    IF pairs = <<>> THEN EmptyDict
    ELSE LET last == pairs[Len(pairs)]
         IN  (last[1] :> last[2]) @@ DictOf(SubSeq(pairs, 1, Len(pairs) - 1))

\* mangle / unmangle: the type-specific marshalling of the demo.
mangle(s) == [i \in DOMAIN s |-> s[i] + 1]
unmangle(s) == [i \in DOMAIN s |-> s[i] - 1]

\* localthing.foo / bar / greet
localfoo(one, two) ==
    IF one # <<>> THEN one \o <<SP, 97, 110, 100, SP>> \o two    \* "%s and %s"
    ELSE <<78, 111, 112, 101>>                                   \* "Nope"
localbar(b, a) == b \o <<SP, 117, 110, 100, SP>> \o a            \* "%s und %s"
localgreet(name) == <<72, 101, 108, 108, 111, COMMA, SP>> \o name \* "Hello, %s"

\* getattr(self, name)(**vals) on the server object, for the three remote
\* commands: a missing or unexpected keyword raises TypeError, a name that
\* is no method raises AttributeError.
servercommand(name, vals) ==
    IF name = FOO THEN
        IF DOMAIN vals = {ONE, TWO}
        THEN Ok(mangle(localfoo(unmangle(vals[ONE]), unmangle(vals[TWO]))))
        ELSE Raised("TypeError")
    ELSE IF name = BAR THEN
        IF DOMAIN vals = {ARGB, ARGA}
        THEN Ok(mangle(localbar(unmangle(vals[ARGB]), unmangle(vals[ARGA]))))
        ELSE Raised("TypeError")
    ELSE IF name = GREET THEN
        IF DOMAIN vals = {ARGNAME}
        THEN Ok(mangle(localgreet(unmangle(vals[ARGNAME]))))
        ELSE Raised("TypeError")
    ELSE Raised("AttributeError")

\* The argument loop of server.batch: "for a in args.split(','): if a:
\* n, v = a.split('='); vals[n] = unescapearg(v)".
RECURSIVE batchvals(_)
batchvals(pieces) ==
    IF pieces = <<>> THEN Ok(<<>>)
    ELSE LET rest == batchvals(SubSeq(pieces, 1, Len(pieces) - 1))
             a == pieces[Len(pieces)]
             nv == Split(a, EQ)
         IN  IF ~rest.ok THEN rest
             ELSE IF a = <<>> THEN rest
             ELSE IF Len(nv) # 2 THEN Raised("ValueError")
             ELSE Ok(Append(rest.val, <<nv[1], unescapearg(nv[2])>>))

\* The loop of server.batch over the pairs of cmds.split(';'): each pair is
\* decoded and its command executed before the next pair is looked at.  The
\* value is the record of the decoded commands [name, vals] and of their
\* escaped results; ValueError when a pair has no ':' or an argument does
\* not split into exactly two pieces on '='.
RECURSIVE batchloop(_)
batchloop(pairs) ==
    IF pairs = <<>> THEN Ok([decoded |-> <<>>, res |-> <<>>])
    ELSE LET rest == batchloop(SubSeq(pairs, 1, Len(pairs) - 1))
             na == Split1(pairs[Len(pairs)], COLON)
             vals == batchvals(Split(na[2], COMMA))
             r == servercommand(na[1], DictOf(vals.val))
         IN  IF ~rest.ok THEN rest
             ELSE IF Len(na) # 2 THEN Raised("ValueError")
             ELSE IF ~vals.ok THEN vals
             ELSE IF ~r.ok THEN r
             ELSE Ok([decoded |-> Append(rest.val.decoded,
                                         [name |-> na[1], vals |-> DictOf(vals.val)]),
                      res |-> Append(rest.val.res, escapearg(r.val))])

\* server.batch(cmds)
serverbatch(cmds) ==
    LET done == batchloop(Split(cmds, SEMI))
    IN  IF ~done.ok THEN done ELSE Ok(Join(done.val.res, <<SEMI>>))

\* The vals dictionary of server.perform: dict(arg.split('=', 1) for arg in
\* args); a piece without '=' raises ValueError.
performvals(args) ==
    LET pieces == [i \in DOMAIN args |-> Split1(args[i], EQ)]
    IN  IF \E i \in DOMAIN pieces : Len(pieces[i]) # 2 THEN Raised("ValueError")
        ELSE Ok(DictOf(pieces))

\* server.perform(req)
serverperform(req) ==
    LET na == Split1(req, QMARK)
        vals == performvals(Split(na[2], AMP))
    IN  IF Len(na) # 2 THEN Raised("ValueError")
        ELSE IF ~vals.ok THEN vals
        ELSE IF na[1] = BATCH THEN
            IF DOMAIN vals.val = {CMDS} THEN serverbatch(vals.val[CMDS])
            ELSE Raised("TypeError")
        ELSE servercommand(na[1], vals.val)

\* remotething._submitone(name, args): args is a sequence of <<n, v>> pairs.
submitone(name, args) ==
    serverperform(name \o <<QMARK>> \o
        Join([i \in DOMAIN args |-> args[i][1] \o <<EQ>> \o args[i][2]], <<AMP>>))

\* The wire string remotething._submitbatch builds from cmds, a sequence of
\* records [name, args] with args a sequence of <<n, v>> pairs.
batchrequest(cmds) ==
    Join([i \in DOMAIN cmds |->
            cmds[i].name \o <<COLON>> \o
            Join([j \in DOMAIN cmds[i].args |->
                    cmds[i].args[j][1] \o <<EQ>> \o escapearg(cmds[i].args[j][2])],
                 <<COMMA>>)],
         <<SEMI>>)

\* remotething._submitbatch(cmds): the pieces of the reply, one per ';'.
submitbatch(cmds) ==
    LET res == submitone(BATCH, << <<CMDS, batchrequest(cmds)>> >>)
    IN  IF ~res.ok THEN res ELSE Ok(Split(res.val, SEMI))

(***************************************************************************)
(* mercurial/sshpeer.py: text conversions of the version 1 transport       *)
(***************************************************************************)
TAB == 9
ZERO == 48
PLUS == 43
MINUS == 45

Whitespace == {SP, TAB, NL, 11, 12, 13}
Digits == ZERO..(ZERO + 9)

\* "%d" % n for n >= 0
RECURSIVE FormatInt(_)
FormatInt(n) ==
    IF n < 10 THEN <<ZERO + n>>
    ELSE Append(FormatInt(n \div 10), ZERO + (n % 10))

\* The value of a string of decimal digits.
RECURSIVE DigitsValue(_)
DigitsValue(d) ==
    IF d = <<>> THEN 0
    ELSE 10 * DigitsValue(SubSeq(d, 1, Len(d) - 1)) + (d[Len(d)] - ZERO)

\* str.strip(): without leading and trailing whitespace.
Strip(s) ==
    LET keep == {i \in 1..Len(s) : s[i] \notin Whitespace}
        lo == CHOOSE i \in keep : \A j \in keep : i <= j
        hi == CHOOSE i \in keep : \A j \in keep : j <= i
    IN  IF keep = {} THEN <<>> ELSE SubSeq(s, lo, hi)

\* int(l): surrounding whitespace is ignored, then an optional sign and at
\* least one decimal digit; anything else raises ValueError.
ParseInt(l) ==
    LET t == Strip(l)
        signed == t # <<>> /\ t[1] \in {PLUS, MINUS}
        d == IF signed THEN Tail(t) ELSE t
    IN  IF d # <<>> /\ \A i \in 1..Len(d) : d[i] \in Digits
        THEN Ok(IF signed /\ t[1] = MINUS THEN 0 - DigitsValue(d) ELSE DigitsValue(d))
        ELSE Raised("ValueError")

\* file.readline(): up to and including the first newline, or what is left
\* before end of file.
ReadLine(buf) ==
    LET i == IndexOf(buf, NL)
    IN  IF i = 0 THEN [line |-> buf, rest |-> <<>>]
        ELSE [line |-> SubSeq(buf, 1, i), rest |-> SubSeq(buf, i + 1, Len(buf))]

\* file.read(size) for size >= 0: size bytes, fewer at end of file.
ReadBytes(buf, size) ==
    LET n == IF size < Len(buf) THEN size ELSE Len(buf)
    IN  [data |-> SubSeq(buf, 1, n), rest |-> SubSeq(buf, n + 1, Len(buf))]

\* str.splitlines() for text whose only line end is '\n'.
SplitLines(s) ==
    LET pieces == Split(s, NL)
    IN  IF pieces[Len(pieces)] = <<>> THEN SubSeq(pieces, 1, Len(pieces) - 1) ELSE pieces

\* _forwardoutput: what ui.status receives after the "remote: " label for
\* the data available on the pipe, one entry per line, each with '\n'.
forwardoutput(data) ==
    [i \in 1..Len(SplitLines(data)) |-> Append(SplitLines(data)[i], NL)]

\* The loop of _cleanuppipes over stderr: one entry per line as the file
\* iterator yields it, with its own line end.
cleanuplines(data) ==
    [i \in 1..Len(SplitLines(data)) |->
        IF i < Len(Split(data, NL)) THEN Append(SplitLines(data)[i], NL)
        ELSE SplitLines(data)[i]]

\* A frame header that counts the length line too.
frameheader_inclusive(data) == FormatInt(Len(data) + 2) \o <<NL>>

\* The length line _writeframed puts before the data: "%d\n" % len(data).
frameheader(data) == FormatInt(Len(data)) \o <<NL>>

\* A length check that takes a blank line for a zero length.
getamount_blankzero(l) ==
    IF l = <<NL>> THEN [kind |-> "amount", amount |-> 0, msg |-> ""]
    ELSE IF ParseInt(l).ok
         THEN [kind |-> "amount", amount |-> ParseInt(l).val, msg |-> ""]
    ELSE [kind |-> "ResponseError", amount |-> 0, msg |-> "unexpected response:"]

\* A length check that reports any unusable length line as out of band.
getamount_alloutofband(l) ==
    IF l = <<NL>> \/ ~ParseInt(l).ok
    THEN [kind |-> "OutOfBandError", amount |-> 0, msg |-> "check previous remote output"]
    ELSE [kind |-> "amount", amount |-> ParseInt(l).val, msg |-> ""]

\* What _getamount makes of the length line l: a blank line aborts with
\* OutOfBandError, a line int() rejects aborts with ResponseError.
getamount(l) ==
    IF l = <<NL>>
    THEN [kind |-> "OutOfBandError", amount |-> 0, msg |-> "check previous remote output"]
    ELSE IF ParseInt(l).ok
         THEN [kind |-> "amount", amount |-> ParseInt(l).val, msg |-> ""]
    ELSE [kind |-> "ResponseError", amount |-> 0, msg |-> "unexpected response:"]

\* a < b in the order sorted() gives byte strings.
LexLess(a, b) ==
    \E i \in 1..(Len(a) + 1) :
        /\ i <= Len(b)
        /\ SubSeq(a, 1, i - 1) = SubSeq(b, 1, i - 1)
        /\ (i = Len(a) + 1 \/ a[i] < b[i])

RECURSIVE SortedKeys_reversed(_)
SortedKeys_reversed(S) ==
    IF S = {} THEN <<>>
    ELSE LET greatest == CHOOSE k \in S : \A o \in S \ {k} : LexLess(o, k)
         IN  <<greatest>> \o SortedKeys_reversed(S \ {greatest})

\* sorted(keys)
RECURSIVE SortedKeys(_)
SortedKeys(S) ==
    IF S = {} THEN <<>>
    ELSE LET least == CHOOSE k \in S : \A o \in S \ {k} : LexLess(k, o)
         IN  <<least>> \o SortedKeys(S \ {least})

\* The argument names the wire protocol commands declare, in declared order.
HEADS == <<104, 101, 97, 100, 115>>                        \* 'heads'
LOOKUP == <<108, 111, 111, 107, 117, 112>>                  \* 'lookup'
PUSHKEY == <<112, 117, 115, 104, 107, 101, 121>>             \* 'pushkey'
KEY == <<107, 101, 121>>                                 \* 'key'
NAMESPACE == <<110, 97, 109, 101, 115, 112, 97, 99, 101>>      \* 'namespace'
OLD == <<111, 108, 100>>                                 \* 'old'
NEWKEY == <<110, 101, 119>>                                 \* 'new'
UNBUNDLE == <<117, 110, 98, 117, 110, 100, 108, 101>>         \* 'unbundle'
commands(cmd) ==
    IF cmd = LOOKUP THEN <<KEY>>
    ELSE IF cmd = UNBUNDLE THEN <<HEADS>>
    ELSE IF cmd = PUSHKEY THEN <<NAMESPACE, KEY, OLD, NEWKEY>>
    ELSE <<>>

\* The bytes _sendrequest writes for cmd and the argument dictionary args:
\* the command line, then per argument, sorted by name, a "<name> <length>"
\* line and the value.  A declared argument missing from args raises
\* KeyError once the command line is written.
sendrequest(cmd, args) ==
    LET keys == commands(cmd)
        missing == \E i \in 1..Len(keys) : keys[i] \notin DOMAIN args
        sorted == SortedKeys({keys[i] : i \in 1..Len(keys)})
        argbytes(k) == k \o <<SP>> \o FormatInt(Len(args[k])) \o <<NL>> \o args[k]
    IN  IF missing THEN [ok |-> FALSE, bytes |-> cmd \o <<NL>>]
        ELSE [ok |-> TRUE,
              bytes |-> cmd \o <<NL>> \o Concat([i \in 1..Len(sorted) |-> argbytes(sorted[i])])]

\* l[:-1]
Most(l) == SubSeq(l, 1, Len(l) - 1)

\* set(s.split()): the maximal runs of characters that are not whitespace.
SplitTokens(s) ==
    LET starts == {i \in 1..Len(s) :
                     s[i] \notin Whitespace /\ (i = 1 \/ s[i - 1] \in Whitespace)}
        stop(i) == CHOOSE j \in i..Len(s) :
                     /\ \A k \in i..j : s[k] \notin Whitespace
                     /\ (j = Len(s) \/ s[j + 1] \in Whitespace)
    IN  {SubSeq(s, i, stop(i)) : i \in starts}

CAPSMARK == <<99, 97, 112, 97, 98, 105, 108, 105, 116, 105, 101, 115, COLON>>
    \* 'capabilities:'
UPGRADED == <<117, 112, 103, 114, 97, 100, 101, 100>>
    \* 'upgraded'
UPGRADE == <<117, 112, 103, 114, 97, 100, 101>>
    \* 'upgrade'
HELLO == <<104, 101, 108, 108, 111>>
    \* 'hello'
BETWEEN == <<98, 101, 116, 119, 101, 101, 110>>
    \* 'between'
PAIRS == <<112, 97, 105, 114, 115>>
    \* 'pairs'
PROTO == <<112, 114, 111, 116, 111>>
    \* 'proto'
ONELINE == <<49, NL>>
    \* '1\n'
NOSUITABLE == "no suitable response from remote hg"

\* The names of the two transport versions, wireprototypes.SSHV1 and SSHV2.
SSHV1 == <<115, 115, 104, 45, 118, 49>>
    \* 'ssh-v1'
SSHV2 == <<101, 120, 112, 45, 115, 115, 104, 45, 118, 50, 45, 48, 48, 48, 51>>
    \* 'exp-ssh-v2-0003'

\* The token generated for this handshake, and another one.
Token == <<116, 107>>
    \* 'tk'
OtherToken == <<116, 107, 120>>
    \* 'tkx'

\* '0' * 40 + '-' + '0' * 40
pairsarg == [i \in 1..(40 + 1 + 40) |-> IF i = 40 + 1 THEN MINUS ELSE ZERO]

\* urlencode([('proto', SSHV2)]); the version names hold no character that
\* urlencode quotes.
upgradecaps == PROTO \o <<EQ>> \o SSHV2

\* ''.join(handshake): the request written to stdin, the upgrade line first
\* when experimental.sshpeer.advertise-v2 is set.
\* A request whose upgrade line is appended where it should be inserted.
handshakerequest_upgradelast(advertise) ==
    HELLO \o <<NL>> \o BETWEEN \o <<NL>>
    \o PAIRS \o <<SP>> \o FormatInt(Len(pairsarg)) \o <<NL>> \o pairsarg
    \o (IF advertise THEN UPGRADE \o <<SP>> \o Token \o <<SP>> \o upgradecaps \o <<NL>>
        ELSE <<>>)

handshakerequest(advertise) ==
    (IF advertise THEN UPGRADE \o <<SP>> \o Token \o <<SP>> \o upgradecaps \o <<NL>>
     ELSE <<>>)
    \o HELLO \o <<NL>> \o BETWEEN \o <<NL>>
    \o PAIRS \o <<SP>> \o FormatInt(Len(pairsarg)) \o <<NL>> \o pairsarg

\* A match that does not end the token where the line's token ends.
reupgraded_prefix(l) == StartsWith(l, UPGRADED \o <<SP>> \o Token)

\* reupgraded.match(l): l begins with "upgraded <token> ".
reupgraded(l) == StartsWith(l, UPGRADED \o <<SP>> \o Token \o <<SP>>)

\* m.group(1): the rest of the line, without its line end.
upgradedproto(l) ==
    LET rest == SubSeq(l, Len(UPGRADED) + Len(Token) + 3, Len(l))
    IN  IF rest # <<>> /\ rest[Len(rest)] = NL THEN Most(rest) ELSE rest

\* A scan from the front: the first line that starts with 'capabilities:'
\* is kept.
lastcapsline_first(capsline, l) ==
    IF capsline = <<>> /\ StartsWith(l, CAPSMARK) THEN l ELSE capsline

\* lines.append(l) as seen by the loop over reversed(lines), which breaks
\* at the first line that starts with 'capabilities:': of the collected
\* lines the last such line is the one looked at.
lastcapsline(capsline, l) ==
    IF StartsWith(l, CAPSMARK) THEN l ELSE capsline

\* Capabilities read as every token after the first colon of the line.
legacycaps_allfields(capsline) ==
    IF capsline = <<>> THEN {}
    ELSE SplitTokens(Split1(Most(capsline), COLON)[2])

\* The version 1 branch: capsline is the last collected line that starts
\* with 'capabilities:', or empty when there is none; the capabilities are
\* l[:-1].split(':')[1].split().
legacycaps(capsline) ==
    IF capsline = <<>> THEN {}
    ELSE SplitTokens(Split(Most(capsline), COLON)[2])

\* A version 2 branch that takes every token of the value as a capability.
upgradedcaps_alltokens(buf) ==
    LET rl == ReadLine(buf)
        valuelen == ParseInt(rl.line)
        rd == ReadBytes(rl.rest, valuelen.val)
    IN  IF ~valuelen.ok THEN [ok |-> FALSE, caps |-> {}, rest |-> rl.rest]
        ELSE [ok |-> TRUE, caps |-> SplitTokens(rd.data), rest |-> ReadBytes(rd.rest, 1).rest]

\* The version 2 branch on what the remote sends after its acknowledgement:
\* a length line, a value that must start with 'capabilities: ', and one
\* more byte.
upgradedcaps(buf) ==
    LET rl == ReadLine(buf)
        valuelen == ParseInt(rl.line)
        rd == ReadBytes(rl.rest, valuelen.val)
    IN  IF ~valuelen.ok THEN [ok |-> FALSE, caps |-> {}, rest |-> rl.rest]
        ELSE IF ~StartsWith(rd.data, CAPSMARK \o <<SP>>)
             THEN [ok |-> FALSE, caps |-> {}, rest |-> rd.rest]
        ELSE [ok |-> TRUE,
              caps |-> SplitTokens(Split(rd.data, COLON)[2]),
              rest |-> ReadBytes(rd.rest, 1).rest]

(***************************************************************************)
(* State                                                                   *)
(***************************************************************************)
VARIABLES
    escPc,        \* escaping round trip: "plain", "escaped", "unescaped"
    escPlain,     \* the byte string given to escapearg
    escWire,      \* escapearg's result
    escBack,      \* unescapearg's result
    bPc,          \* one _submitbatch call: "client", "server", "reply", "done"
    bCmds,        \* the cmds given to _submitbatch: records [name, args]
    bWire,        \* the request string handed to server.perform
    bServer,      \* what server.batch decoded and computed, or raised
    bResults,     \* the pieces _submitbatch yields, or the exception
    exPc,         \* executor scope: "open", "sending", "closed"
    exCalls,      \* the calls submitted in the scope, in submission order
    exFut,        \* one future per call: [state, val, sets]
    exNext,       \* index of the first call not yet sent
    exWire,       \* the wire requests issued, in order
    exRead,       \* the last read of a future: [unresolved, outcome]
    pAuto,        \* sshv1peer._autoreadstderr
    pipei,        \* bytes the remote wrote to stdout, not yet read
    pipeo,        \* bytes written to the remote's stdin
    pFlushed,     \* how many bytes of pipeo were flushed
    pipee,        \* bytes the remote wrote to stderr, not yet read
    pClosed,      \* which of the pipes are closed: [i, o, e]
    ui,           \* what ui.status received after the "remote: " label
    pStage,       \* position of the exchange with the remote
    pSent,        \* payload of the frame written by _writeframed
    pTrail,       \* what the remote sent after echoing the frame
    pLine,        \* the length line the last _getamount read
    pReads,       \* number of responses read
    pErrs,        \* number of diagnostic lines the remote emitted
    pPending,     \* stderr bytes that were unread when the last read began
    pResult,      \* outcome of the last peer operation: [op, kind, val, msg]
    hsPc,         \* handshake: "start", "scanning", "upgraded", "done", "failed"
    hsAdvertise,  \* experimental.sshpeer.advertise-v2
    hsLast,       \* lines[-1]
    hsCapsLine,   \* the last of lines that starts with 'capabilities:', if any
    hsNoise,      \* max_noise
    hsProto,      \* protoname
    hsCaps,       \* caps
    hsEnd,        \* how the scan ended, and the message of the error raised
    hsBlob,       \* what the version 2 branch was given to read: [read, data]
    hsAck,        \* the line taken as the upgrade acknowledgement, if any
    dpKind,       \* doublepipe around "in" (buffered stdout) or "out" (stdin)
    dpPoll,       \* util.poll is supported on this platform
    dpMain,       \* in: bytes the remote sent, not yet buffered; out: bytes written
    dpBuf,        \* bytes held by the bufferedinputpipe (hasbuffer when not empty)
    dpEof,        \* the remote closed its end of the main pipe
    dpSide,       \* bytes available on the side pipe (stderr)
    dpClosed,     \* [main, side]: which of the two pipes are closed
    dpUi,         \* what ui.status received after the "remote: " label
    dpCall,       \* the operation in progress: [op, size, data, blocked]
    dpRet,        \* the last operation and what it returned: [op, size, data, val]
    dpTrace,      \* what the operation in progress, or the last one, did, in order
    dpOps,        \* number of operations issued
    dpSent,       \* number of chunks the remote emitted
    fp,           \* what is left to read of the payload reader of _callpush
    fpData,       \* the whole payload
    pushFrames,   \* the data of the frames _callpush wrote, in order
    pushRet,      \* what _callpush returned: [kind, ret, err]
    pushReply,    \* what the remote sent once it had the payload
    cleanups,     \* number of times sshv1peer._cleanup has run
    cleanupLog,   \* what the last _cleanuppipes did, step by step
    stFile,       \* the state file of the slot: [exists, data]
    stTemp,       \* the temporary file of a save in progress: [open, data]
    stSave,       \* the save in progress: [pc, version, payload, chunks]
    stPrev,       \* the state file as it was when the last save began
    stOut,        \* the last operation on the slot and its outcome
    stOps,        \* number of operations issued on the slot
    stLast,       \* the last operation that changed the slot, and what it stored
    unfinishedstates, \* state._unfinishedstates: a list of [opname, fname]
    registered,   \* the descriptors in the order of their addunfinished calls
    repoFiles,    \* the files that exist in the repository's .hg directory
    repoParents,  \* number of parents of the working copy
    skip,         \* commands.status.skipstates
    repostate     \* what getrepostate returned last: [called, found, opname]

escVars == <<escPc, escPlain, escWire, escBack>>
batchVars == <<bPc, bCmds, bWire, bServer, bResults>>
execVars == <<exPc, exCalls, exFut, exNext, exWire, exRead>>
peerVars == <<pAuto, pipei, pipeo, pFlushed, pipee, pClosed, ui, pStage, pSent,
              pTrail, pLine, pReads, pErrs, pPending, pResult>>

hsVars == <<hsPc, hsAdvertise, hsLast, hsCapsLine, hsNoise, hsProto, hsCaps, hsEnd,
            hsBlob, hsAck>>

dpVars == <<dpKind, dpPoll, dpMain, dpBuf, dpEof, dpSide, dpClosed, dpUi, dpCall, dpRet,
            dpTrace, dpOps, dpSent>>

pushVars == <<fp, fpData, pushFrames, pushRet, pushReply>>

lifeVars == <<cleanups, cleanupLog>>
storeVars == <<stFile, stTemp, stSave, stPrev, stOut, stOps, stLast>>
regVars == <<unfinishedstates, registered, repoFiles, repoParents, skip, repostate>>

vars == <<escVars, batchVars, execVars, peerVars, hsVars, dpVars, pushVars, lifeVars,
          storeVars, regVars>>

\* The variables each part of the model leaves alone.
notEsc == <<lifeVars, storeVars, regVars, pushVars, batchVars, execVars, peerVars, hsVars, dpVars>>
notBatch == <<lifeVars, storeVars, regVars, pushVars, escVars, execVars, peerVars, hsVars, dpVars>>
notExec == <<lifeVars, storeVars, regVars, pushVars, escVars, batchVars, peerVars, hsVars, dpVars>>
notPeer == <<lifeVars, storeVars, regVars, pushVars, escVars, batchVars, execVars, hsVars, dpVars>>
notHs == <<lifeVars, storeVars, regVars, pushVars, escVars, batchVars, execVars, dpVars>>
notDp == <<lifeVars, storeVars, regVars, escVars, batchVars, execVars, peerVars, hsVars, pushVars>>
notPush == <<lifeVars, storeVars, regVars, escVars, batchVars, execVars, hsVars, dpVars>>
notLife == <<storeVars, regVars, escVars, batchVars, execVars, hsVars, dpVars, pushVars>>
notStore == <<lifeVars, regVars, escVars, batchVars, execVars, peerVars, hsVars, dpVars,
              pushVars>>
notReg == <<lifeVars, storeVars, escVars, batchVars, execVars, peerVars, hsVars, dpVars,
            pushVars>>

(***************************************************************************)
(* Escaping round trip                                                     *)
(***************************************************************************)
MaxEscLen == 4
EscChars == {COLON, COMMA, SEMI, EQ, 97}

EscIdle ==
    /\ escPc = "idle"
    /\ escPlain = <<>>
    /\ escWire = <<>>
    /\ escBack = <<>>

BatchIdle ==
    /\ bPc = "idle"
    /\ bCmds = <<>>
    /\ bWire = <<>>
    /\ bServer = Raised("idle")
    /\ bResults = Raised("idle")

ExecIdle ==
    /\ exPc = "idle"
    /\ exCalls = <<>>
    /\ exFut = <<>>
    /\ exNext = 1
    /\ exWire = <<>>
    /\ exRead = [unresolved |-> FALSE, outcome |-> "none"]

AllOpen == [i |-> FALSE, o |-> FALSE, e |-> FALSE]
AllClosed == [i |-> TRUE, o |-> TRUE, e |-> TRUE]
NoResult == [op |-> "none", kind |-> "none", val |-> <<>>, msg |-> ""]

PeerIdle ==
    /\ pAuto = FALSE
    /\ pipei = <<>>
    /\ pipeo = <<>>
    /\ pFlushed = 0
    /\ pipee = <<>>
    /\ pClosed = AllOpen
    /\ ui = <<>>
    /\ pStage = "idle"
    /\ pSent = <<>>
    /\ pTrail = <<>>
    /\ pLine = <<>>
    /\ pReads = 0
    /\ pErrs = 0
    /\ pPending = <<>>
    /\ pResult = NoResult

NoBlob == [read |-> FALSE, data |-> <<>>]
Dummy == <<100, 117, 109, 109, 121>>           \* 'dummy'

HsIdle ==
    /\ hsPc = "idle"
    /\ hsAdvertise = FALSE
    /\ hsLast = Dummy
    /\ hsCapsLine = <<>>
    /\ hsNoise = 0
    /\ hsProto = SSHV1
    /\ hsCaps = {}
    /\ hsEnd = [how |-> "", msg |-> ""]
    /\ hsBlob = NoBlob
    /\ hsAck = <<>>

NoCall == [op |-> "none", size |-> 0, data |-> <<>>, blocked |-> FALSE]
NoRet == [op |-> "none", size |-> 0, data |-> <<>>, val |-> <<>>]

DpIdle ==
    /\ dpKind = "in"
    /\ dpPoll = TRUE
    /\ dpMain = <<>>
    /\ dpBuf = <<>>
    /\ dpEof = FALSE
    /\ dpSide = <<>>
    /\ dpClosed = [main |-> FALSE, side |-> FALSE]
    /\ dpUi = <<>>
    /\ dpCall = NoCall
    /\ dpRet = NoRet
    /\ dpTrace = <<>>
    /\ dpOps = 0
    /\ dpSent = 0

NoPush == [kind |-> "none", ret |-> <<>>, err |-> <<>>]

PushIdle ==
    /\ fp = <<>>
    /\ fpData = <<>>
    /\ pushFrames = <<>>
    /\ pushRet = NoPush
    /\ pushReply = <<>>

LifeIdle == cleanups = 0 /\ cleanupLog = <<>>

\* A structured value: an integer, a byte string, or a list or a map of
\* integers and byte strings.
NoValue == [t |-> "none", n |-> 0, b |-> <<>>, items |-> <<>>]
NoFile == [exists |-> FALSE, data |-> <<>>]
NoTemp == [open |-> FALSE, data |-> <<>>]
NoSave == [pc |-> "idle", version |-> [t |-> "int", val |-> 0], payload |-> NoValue,
           chunks |-> <<>>]
IntVersion(v) == [t |-> "int", val |-> v]
NoOut == [op |-> "none", kind |-> "none", val |-> NoValue, found |-> FALSE,
          version |-> IntVersion(0)]

NoLast == [op |-> "none", version |-> 0, payload |-> NoValue]

StoreIdle ==
    /\ stLast = NoLast
    /\ stFile = NoFile
    /\ stTemp = NoTemp
    /\ stSave = NoSave
    /\ stPrev = NoFile
    /\ stOut = NoOut
    /\ stOps = 0

NoState == [called |-> FALSE, found |-> FALSE, opname |-> ""]

RegIdle ==
    /\ unfinishedstates = <<>>
    /\ registered = <<>>
    /\ repoFiles = {}
    /\ repoParents = 1
    /\ skip = {}
    /\ repostate = NoState

OthersIdle == LifeIdle /\ StoreIdle /\ RegIdle

EscOnly == BatchIdle /\ ExecIdle /\ PeerIdle /\ HsIdle /\ DpIdle /\ PushIdle /\ OthersIdle
BatchOnly == EscIdle /\ ExecIdle /\ PeerIdle /\ HsIdle /\ DpIdle /\ PushIdle /\ OthersIdle
ExecOnly == EscIdle /\ BatchIdle /\ PeerIdle /\ HsIdle /\ DpIdle /\ PushIdle /\ OthersIdle
PeerOnly == EscIdle /\ BatchIdle /\ ExecIdle /\ HsIdle /\ DpIdle /\ PushIdle /\ OthersIdle
HsOnly == EscIdle /\ BatchIdle /\ ExecIdle /\ DpIdle /\ PushIdle /\ OthersIdle
DpOnly == EscIdle /\ BatchIdle /\ ExecIdle /\ PeerIdle /\ HsIdle /\ PushIdle /\ OthersIdle
PushOnly == EscIdle /\ BatchIdle /\ ExecIdle /\ HsIdle /\ DpIdle /\ OthersIdle
CoreIdle == EscIdle /\ BatchIdle /\ ExecIdle /\ HsIdle /\ DpIdle /\ PushIdle
LifeOnly == CoreIdle /\ StoreIdle /\ RegIdle
StoreOnly == CoreIdle /\ PeerIdle /\ LifeIdle /\ RegIdle
RegOnly == CoreIdle /\ PeerIdle /\ LifeIdle /\ StoreIdle

InitEsc ==
    /\ escPc = "plain"
    /\ escPlain \in StrOf(EscChars, MaxEscLen)
    /\ escWire = <<>>
    /\ escBack = <<>>
    /\ EscOnly

DoEscape ==
    /\ escPc = "plain"
    /\ escWire' = escapearg(escPlain)
    /\ escPc' = "escaped"
    /\ UNCHANGED <<escPlain, escBack, notEsc>>

DoUnescape ==
    /\ escPc = "escaped"
    /\ escBack' = unescapearg(escWire)
    /\ escPc' = "unescaped"
    /\ UNCHANGED <<escPlain, escWire, notEsc>>

NextEsc == DoEscape \/ DoUnescape

SpecEsc == InitEsc /\ [][NextEsc]_vars

\* C1: for every byte string x, including strings made only of ':', ',',
\* ';' and '=', unescapearg(escapearg(x)) = x.
EscapeRoundTrip == escPc = "unescaped" => escBack = escPlain

\* A string made only of the four special characters has gone through both
\* conversions and was changed by the escaping.
EscapeRoundTripWitness ==
    /\ escPc = "unescaped"
    /\ escPlain = <<COLON, EQ, SEMI, COMMA>>
    /\ escWire # escPlain

(***************************************************************************)
(* One batch request through _submitbatch, server.perform and server.batch *)
(***************************************************************************)
MaxBatch == 2
MaxWireLen == 1
WireChars == {COLON, COMMA, SEMI, EQ, 98}
WireVals == StrOf(WireChars, MaxWireLen)

\* The commands a batch is drawn from: foo and bar with encoded argument
\* values, in the order in which foo and bar encode them.
BatchCmdSet ==
    {[name |-> FOO, args |-> << <<ONE, v>>, <<TWO, w>> >>] : v \in WireVals, w \in WireVals}
    \cup
    {[name |-> BAR, args |-> << <<ARGB, v>>, <<ARGA, w>> >>] : v \in WireVals, w \in WireVals}

InitBatch ==
    /\ bPc = "client"
    /\ bCmds \in {q \in StrOf(BatchCmdSet, MaxBatch) : q # <<>>}
    /\ bWire = <<>>
    /\ bServer = Raised("idle")
    /\ bResults = Raised("idle")
    /\ BatchOnly

\* _submitbatch builds the request and _submitone hands it to the server.
BatchSend ==
    /\ bPc = "client"
    /\ bWire' = BATCH \o <<QMARK>> \o CMDS \o <<EQ>> \o batchrequest(bCmds)
    /\ bPc' = "server"
    /\ UNCHANGED <<bCmds, bServer, bResults, notBatch>>

\* server.perform dispatches to server.batch, which decodes and executes.
BatchServe ==
    /\ bPc = "server"
    /\ LET na == Split1(bWire, QMARK)
           vals == performvals(Split(na[2], AMP))
       IN  bServer' = IF Len(na) = 2 /\ vals.ok /\ na[1] = BATCH
                         /\ DOMAIN vals.val = {CMDS}
                      THEN batchloop(Split(vals.val[CMDS], SEMI))
                      ELSE Raised("perform")
    /\ bPc' = "reply"
    /\ UNCHANGED <<bCmds, bWire, bResults, notBatch>>

\* _submitbatch splits the reply on ';' and yields the pieces.
BatchSplit ==
    /\ bPc = "reply"
    /\ bResults' = submitbatch(bCmds)
    /\ bPc' = "done"
    /\ UNCHANGED <<bCmds, bWire, bServer, notBatch>>

NextBatch == BatchSend \/ BatchServe \/ BatchSplit

SpecBatch == InitBatch /\ [][NextBatch]_vars

\* The commands as submitted: name and argument dictionary.
Submitted(cmds) == [i \in DOMAIN cmds |-> [name |-> cmds[i].name, vals |-> DictOf(cmds[i].args)]]

\* C2: batch encoding is unambiguous: for every sequence of commands given
\* to _submitbatch, with argument values that may contain ':', ',', ';' or
\* '=', the server's decoder recovers exactly the submitted commands in
\* order with exactly the submitted argument values, and the client splits
\* the reply into exactly one result per submitted command.
BatchUnambiguous ==
    bPc = "done" =>
        /\ bServer.ok
        /\ bServer.val.decoded = Submitted(bCmds)
        /\ bResults.ok
        /\ Len(bResults.val) = Len(bCmds)

(***************************************************************************)
(* The command executor used by remotething.commandexecutor                *)
(***************************************************************************)
MaxCalls == 4

\* The calls application code submits: command name and arguments, in the
\* order of the command's parameters.  '9' and '<' are the characters that
\* mangle() turns into ':' and '='.
ExCallSet ==
    {[name |-> FOO, args |-> << <<ONE, <<c>> >>, <<TWO, <<97>> >> >>] : c \in {97, 57, 60}}
    \cup {[name |-> BAR, args |-> << <<ARGB, <<97>> >>, <<ARGA, <<97>> >> >>]}
    \cup {[name |-> GREET, args |-> << <<ARGNAME, <<97>> >> >>]}

\* A command is batchable when the peer declares it with the batchable
\* decorator: foo and bar are, greet is coded directly.
batchable(name) == name \in {FOO, BAR}

\* The first half of a batchable method: the encoded arguments.
encodecall(c) ==
    [name |-> c.name,
     args |-> [j \in DOMAIN c.args |-> <<c.args[j][1], mangle(c.args[j][2])>>]]

\* What the call returns when made on the local object.
localresult(c) ==
    IF c.name = FOO THEN localfoo(c.args[1][2], c.args[2][2])
    ELSE IF c.name = BAR THEN localbar(c.args[1][2], c.args[2][2])
    ELSE localgreet(c.args[1][2])

\* Last index of the maximal run of consecutive batchable calls from i.
RECURSIVE RunEnd(_, _)
RunEnd(calls, i) ==
    IF i < Len(calls) /\ batchable(calls[i + 1].name) THEN RunEnd(calls, i + 1) ELSE i

Unresolved == [state |-> "unresolved", val |-> <<>>, sets |-> 0]

\* Resolving a future with a value or with an error.
SetResult(f, v) == [state |-> "value", val |-> v, sets |-> f.sets + 1]
SetError(f) == [state |-> "error", val |-> <<>>, sets |-> f.sets + 1]

\* A read that hands out the placeholder of a future not yet resolved.
FutureRead_unchecked(f) == IF f.state = "error" THEN "error" ELSE "value"

\* Reading a future: its value, or an error when it holds none.
FutureRead(f) == IF f.state = "value" THEN "value" ELSE "error"

\* A failure that fails every future of the scope, resolved or not.
FailPending_all(futs, from) == [k \in DOMAIN futs |-> SetError(futs[k])]

\* A failed request fails every future still pending in the scope.
FailPending(futs, from) ==
    [k \in DOMAIN futs |-> IF k >= from THEN SetError(futs[k]) ELSE futs[k]]

\* A batch reply handed out in reverse order.
ResolveBatch_reversed(futs, i, j, pieces) ==
    [k \in DOMAIN futs |->
        IF k < i \/ k > j THEN futs[k]
        ELSE IF j - k + 1 <= Len(pieces) THEN SetResult(futs[k], unmangle(pieces[j - k + 1]))
        ELSE SetError(futs[k])]

\* The futures i..j of a batch take the pieces of the reply in order, each
\* decoded by the second half of its batchable method.
ResolveBatch(futs, i, j, pieces) ==
    [k \in DOMAIN futs |->
        IF k < i \/ k > j THEN futs[k]
        ELSE IF k - i + 1 <= Len(pieces) THEN SetResult(futs[k], unmangle(pieces[k - i + 1]))
        ELSE SetError(futs[k])]

\* The future of a call sent alone takes the decoded reply.
ResolveCall(futs, i, reply) ==
    [k \in DOMAIN futs |-> IF k = i THEN SetResult(futs[k], unmangle(reply)) ELSE futs[k]]

InitExec ==
    /\ exPc = "open"
    /\ exCalls = <<>>
    /\ exFut = <<>>
    /\ exNext = 1
    /\ exWire = <<>>
    /\ exRead = [unresolved |-> FALSE, outcome |-> "none"]
    /\ ExecOnly

\* e.callcommand(name, args): the call is queued, its future is returned.
ExCallCommand ==
    /\ exPc = "open"
    /\ Len(exCalls) < MaxCalls
    /\ \E c \in ExCallSet :
        /\ exCalls' = Append(exCalls, c)
        /\ exFut' = Append(exFut, Unresolved)
    /\ UNCHANGED <<exPc, exNext, exWire, exRead, notExec>>

\* Leaving the scope starts sending what was queued.
ExClose ==
    /\ exPc = "open"
    /\ exPc' = "sending"
    /\ UNCHANGED <<exCalls, exFut, exNext, exWire, exRead, notExec>>

\* The next maximal run of batchable calls goes out as one batch request.
ExSendBatch ==
    /\ exPc = "sending"
    /\ exNext <= Len(exCalls)
    /\ batchable(exCalls[exNext].name)
    /\ \E delivered \in BOOLEAN, j \in {RunEnd(exCalls, exNext)} :
      \E reply \in {submitbatch([k \in 1..(j - exNext + 1) |->
                                    encodecall(exCalls[exNext + k - 1])])} :
        LET i == exNext
            outcome == IF ~delivered THEN "transport"
                       ELSE IF ~reply.ok THEN "raised" ELSE "ok"
        IN  /\ exWire' = Append(exWire, [kind |-> "batch", first |-> i, last |-> j,
                                         outcome |-> outcome])
            /\ exFut' = IF outcome = "ok" THEN ResolveBatch(exFut, i, j, reply.val)
                        ELSE FailPending(exFut, i)
            /\ exNext' = IF outcome = "ok" THEN j + 1 ELSE Len(exCalls) + 1
    /\ UNCHANGED <<exPc, exCalls, exRead, notExec>>

\* A call that is not batchable goes out alone, as the method codes it.
ExSendCall ==
    /\ exPc = "sending"
    /\ exNext <= Len(exCalls)
    /\ ~batchable(exCalls[exNext].name)
    /\ \E delivered \in BOOLEAN, e \in {encodecall(exCalls[exNext])} :
      \E reply \in {submitone(e.name, e.args)} :
        LET i == exNext
            outcome == IF ~delivered THEN "transport"
                       ELSE IF ~reply.ok THEN "raised" ELSE "ok"
        IN  /\ exWire' = Append(exWire, [kind |-> "call", first |-> i, last |-> i,
                                         outcome |-> outcome])
            /\ exFut' = IF outcome = "ok"
                        THEN ResolveCall(exFut, i, reply.val)
                        ELSE FailPending(exFut, i)
            /\ exNext' = IF outcome = "ok" THEN i + 1 ELSE Len(exCalls) + 1
    /\ UNCHANGED <<exPc, exCalls, exRead, notExec>>

\* Everything was sent: the scope is closed.
ExFinish ==
    /\ exPc = "sending"
    /\ exNext > Len(exCalls)
    /\ exPc' = "closed"
    /\ UNCHANGED <<exCalls, exFut, exNext, exWire, exRead, notExec>>

\* Reading a future's value.
ExResult ==
    /\ exPc \in {"open", "sending", "closed"}
    /\ \E i \in DOMAIN exFut :
        exRead' = [unresolved |-> exFut[i].sets = 0, outcome |-> FutureRead(exFut[i])]
    /\ UNCHANGED <<exPc, exCalls, exFut, exNext, exWire, notExec>>

NextExec == ExCallCommand \/ ExClose \/ ExSendBatch \/ ExSendCall \/ ExFinish \/ ExResult

SpecExec == InitExec /\ [][NextExec]_vars

\* The wire requests cover the calls in submission order, one batch per
\* maximal run of consecutive batchable calls, one request per other call.
WireGrouping ==
    /\ \A r \in DOMAIN exWire :
        /\ exWire[r].first = (IF r = 1 THEN 1 ELSE exWire[r - 1].last + 1)
        /\ exWire[r].first <= exWire[r].last
        /\ \A k \in exWire[r].first..exWire[r].last :
              batchable(exCalls[k].name) <=> exWire[r].kind = "batch"
        /\ exWire[r].kind = "call" => exWire[r].first = exWire[r].last
        /\ exWire[r].kind = "batch" /\ exWire[r].last < Len(exCalls)
              => ~batchable(exCalls[exWire[r].last + 1].name)
    /\ (IF exWire = <<>> THEN 0 ELSE exWire[Len(exWire)].last) = Len(exCalls)

NoTransportFailure == \A r \in DOMAIN exWire : exWire[r].outcome # "transport"

\* C3: for any sequence of calls submitted in one scope, the wire requests
\* are one batch per maximal run of consecutive batchable calls and one
\* standalone request per other call, in submission order, and every future
\* is resolved with the result of its own call.
ExecOrderAndResults ==
    exPc = "closed" /\ NoTransportFailure =>
        /\ WireGrouping
        /\ \A i \in DOMAIN exCalls :
              exFut[i].state = "value" /\ exFut[i].val = localresult(exCalls[i])

\* C4: every future starts unresolved, is resolved at most once, with a
\* value or with an error, while the scope closes; once the scope has
\* closed none is unresolved; reading an unresolved future is an error.
FutureResolvedOnce ==
    /\ \A i \in DOMAIN exFut :
        /\ exFut[i].sets <= 1
        /\ exFut[i].sets = 0 <=> exFut[i].state = "unresolved"
        /\ exFut[i].sets = 1 <=> exFut[i].state \in {"value", "error"}
        /\ exPc = "open" => exFut[i].state = "unresolved"
        /\ exPc = "closed" => exFut[i].state \in {"value", "error"}
    /\ Len(exFut) = Len(exCalls)
    /\ exRead.unresolved => exRead.outcome = "error"

\* A closed scope in which one request succeeded and a later one failed,
\* and an unresolved future was read.
FutureResolvedOnceWitness ==
    /\ exPc = "closed"
    /\ Len(exFut) >= 3
    /\ \E i, j \in DOMAIN exFut :
          i < j /\ exFut[i].state = "value" /\ exFut[j].state = "error"
    /\ exRead.unresolved

\* The server can execute the call when it is sent in a batch of its own.
aloneok(c) == submitbatch(<<encodecall(c)>>).ok

\* C5: when the server signals an error for one call of a batch, only that
\* call's future is resolved with the error and every sibling future of the
\* batch is resolved with its own result; when the batch request fails at
\* transport level, every future still pending is resolved with an error.
PerCallErrorIsolated ==
    \A r \in DOMAIN exWire :
        /\ exWire[r].kind = "batch" /\ exWire[r].outcome = "raised" =>
              \A k \in exWire[r].first..exWire[r].last :
                  IF aloneok(exCalls[k])
                  THEN exFut[k].state = "value" /\ exFut[k].val = localresult(exCalls[k])
                  ELSE exFut[k].state = "error"
        /\ exWire[r].outcome = "transport" =>
              \A k \in exWire[r].first..Len(exCalls) : exFut[k].state = "error"

(***************************************************************************)
(* The version 1 SSH peer talking to a remote                              *)
(***************************************************************************)
MaxFrameLen == 3
LongFrameLen == 12
MaxReads == 2
MaxErrs == 1

\* Payloads for _writeframed: every short string of bytes that look like
\* length lines, and one payload whose length takes two digits.
FrameChars == {NL, ZERO}
LongFrame == [i \in 1..LongFrameLen |-> IF i % 2 = 0 THEN NL ELSE ZERO]
FrameData == StrOf(FrameChars, MaxFrameLen) \cup {LongFrame}

\* What the remote may send after the frame it echoes.
Trailers == {<<>>, <<ZERO, NL>>}

\* What the remote may answer to a request, then end of file.
Responses ==
    { <<NL>>,                                  \* blank line
      <<>>,                                    \* nothing
      <<ZERO, NL>>,                            \* '0\n'
      <<ZERO, ZERO, NL, 97>>,                  \* '00\na'
      <<120, NL>>,                             \* 'x\n'
      <<49, 120, NL, 97>>,                     \* '1x\na'
      <<50, NL, 97, 98, 99>>,                  \* '2\nabc'
      <<SP, 51, NL, 97, 98>> }                 \* ' 3\nab'

\* Diagnostic output of the remote.
ErrData == {<<>>, <<101, NL, 102>>}            \* '', 'e\nf'
ErrLine == <<103, NL>>                         \* 'g\n'

\* The calls made on the peer.
PeerCalls ==
    { [cmd |-> HEADS, args |-> EmptyDict],
      [cmd |-> LOOKUP, args |-> (KEY :> <<97>>)],
      [cmd |-> LOOKUP, args |-> EmptyDict],
      [cmd |-> PUSHKEY,
       args |-> (NAMESPACE :> <<110>>) @@ (KEY :> <<107>>) @@ (OLD :> <<>>) @@ (NEWKEY :> <<98>>)] }

InitPeer ==
    /\ pAuto \in BOOLEAN
    /\ pipei = <<>>
    /\ pipeo = <<>>
    /\ pFlushed = 0
    /\ pipee \in ErrData
    /\ pClosed = AllOpen
    /\ ui = <<>>
    /\ pStage = "connected"
    /\ pSent = <<>>
    /\ pTrail = <<>>
    /\ pLine = <<>>
    /\ pReads = 0
    /\ pErrs = 0
    /\ pPending = <<>>
    /\ pResult = NoResult
    /\ PeerOnly

\* A peer that never forwards stderr on its own.
ForwardedNow_never == <<>>

\* Data available on stderr is forwarded: by the doublepipe around every
\* read and write, and by _readerr, when stderr is read automatically.
ForwardedNow == IF pAuto THEN forwardoutput(pipee) ELSE <<>>
ErrLeft == IF pAuto THEN <<>> ELSE pipee

\* sshv1peer._writeframed(data, flush)
PeerWriteFramed ==
    /\ pStage = "connected"
    /\ \E data \in FrameData, flush \in BOOLEAN :
        /\ pipeo' = pipeo \o frameheader(data) \o data
        /\ pFlushed' = IF flush THEN Len(pipeo') ELSE pFlushed
        /\ pSent' = data
    /\ ui' = ui \o ForwardedNow
    /\ pipee' = ErrLeft
    /\ pStage' = "written"
    /\ pResult' = [op |-> "writeframed", kind |-> "ok", val |-> <<>>, msg |-> ""]
    /\ UNCHANGED <<pAuto, pipei, pClosed, pTrail, pLine, pReads, pErrs, pPending, notPeer>>

\* The request half of sshv1peer._call: _sendrequest up to the flush.
PeerSendRequest ==
    /\ pStage = "connected"
    /\ \E c \in PeerCalls :
        LET req == sendrequest(c.cmd, c.args)
        IN  /\ pipeo' = pipeo \o req.bytes
            /\ pFlushed' = IF req.ok THEN Len(pipeo') ELSE pFlushed
            /\ pStage' = IF req.ok THEN "requested" ELSE "failed"
            /\ pResult' = [op |-> "call", kind |-> IF req.ok THEN "sent" ELSE "KeyError",
                           val |-> <<>>, msg |-> ""]
    /\ ui' = ui \o ForwardedNow
    /\ pipee' = ErrLeft
    /\ UNCHANGED <<pAuto, pipei, pClosed, pSent, pTrail, pLine, pReads, pErrs, pPending, notPeer>>

\* The remote echoes the frame it was sent and goes on with a trailer.
RemoteEcho ==
    /\ pStage = "written"
    /\ \E t \in Trailers :
        /\ pipei' = pipei \o pipeo \o t
        /\ pTrail' = t
    /\ pStage' = "echoed"
    /\ UNCHANGED <<pAuto, pipeo, pFlushed, pipee, pClosed, ui, pSent, pLine, pReads,
                   pErrs, pPending, pResult, notPeer>>

\* The remote answers a request, or speaks unasked.
RemoteSend ==
    /\ pStage \in {"connected", "requested"}
    /\ \E r \in Responses : pipei' = pipei \o r
    /\ pStage' = IF pStage = "requested" THEN "answered" ELSE "unasked"
    /\ UNCHANGED <<pAuto, pipeo, pFlushed, pipee, pClosed, ui, pSent, pTrail, pLine,
                   pReads, pErrs, pPending, pResult, notPeer>>

\* The remote writes a line of diagnostics.
RemoteStderr ==
    /\ pErrs < MaxErrs
    /\ ~pClosed.e
    /\ pipee' = pipee \o ErrLine
    /\ pErrs' = pErrs + 1
    /\ UNCHANGED <<pAuto, pipei, pipeo, pFlushed, pClosed, ui, pStage, pSent, pTrail,
                   pLine, pReads, pPending, pResult, notPeer>>

\* The response half of sshv1peer._call, and sshv1peer._readframed: the
\* length line goes through _getamount, then that many bytes are read.  An
\* abort runs _cleanup, which closes stdin and stdout, forwards stderr to
\* its end and closes it, before the error is raised.
PeerReadResponse ==
    /\ pStage \in {"echoed", "answered", "unasked", "readback", "read"}
    /\ ~pClosed.i
    /\ pReads < MaxReads
    /\ LET rl == ReadLine(pipei)
           ga == getamount(rl.line)
           rd == ReadBytes(rl.rest, ga.amount)
           op == IF pStage = "answered" THEN "call" ELSE "readframed"
       IN  /\ pLine' = rl.line
           /\ IF ga.kind = "amount"
              THEN /\ pipei' = rd.rest
                   /\ pResult' = [op |-> op, kind |-> "ok", val |-> rd.data, msg |-> ""]
                   /\ ui' = ui \o ForwardedNow
                   /\ pClosed' = pClosed
              ELSE /\ pipei' = rl.rest
                   /\ pResult' = [op |-> op, kind |-> ga.kind, val |-> rl.line, msg |-> ga.msg]
                   /\ ui' = ui \o ForwardedNow \o cleanuplines(ErrLeft)
                   /\ pClosed' = AllClosed
    /\ pipee' = IF pClosed'.e THEN <<>> ELSE ErrLeft
    /\ pReads' = pReads + 1
    /\ pPending' = pipee
    /\ pStage' = IF pStage = "echoed" THEN "readback" ELSE "read"
    /\ UNCHANGED <<pAuto, pipeo, pFlushed, pSent, pTrail, pErrs, notPeer>>

NextPeer ==
    \/ PeerWriteFramed
    \/ PeerSendRequest
    \/ RemoteEcho
    \/ RemoteSend
    \/ RemoteStderr
    \/ PeerReadResponse

SpecPeer == InitPeer /\ [][NextPeer]_vars

\* A framed read has completed, normally or by an abort.
FramedReadDone == pStage \in {"readback", "read"}

\* The last entries of ui are exactly the lines in out.
EndsWith(log, out) ==
    /\ Len(out) <= Len(log)
    /\ SubSeq(log, Len(log) - Len(out) + 1, Len(log)) = out

\* C6: the frame _writeframed(b) produces, read back by one _readframed(),
\* gives b again, the empty string included, and leaves the stream at the
\* first byte after the frame.
FramingRoundTrip ==
    pStage = "readback" =>
        /\ pResult.kind = "ok"
        /\ pResult.val = pSent
        /\ pipei = pTrail

FramingRoundTripWitness ==
    /\ pStage = "readback"
    /\ pSent = <<>>
    /\ pResult.val = <<>>
    /\ pipei = <<ZERO, NL>>

\* C7, as stated: a framed read whose length line is empty, blank or zero
\* returns a zero-length frame and raises no error.
EmptyOrZeroLengthGivesEmptyFrame ==
    (FramedReadDone /\ (Strip(pLine) = <<>> \/ ParseInt(pLine) = Ok(0))) =>
        /\ pResult.kind = "ok"
        /\ pResult.val = <<>>

\* C7, amended: a framed read whose length line parses as the integer zero
\* returns a zero-length frame and raises no error, reading nothing past
\* the length line; a blank length line raises OutOfBandError and an empty
\* one (end of file) raises ResponseError.
ZeroLengthGivesEmptyFrame ==
    FramedReadDone =>
        /\ ParseInt(pLine) = Ok(0) => (pResult.kind = "ok" /\ pResult.val = <<>>)
        /\ pLine = <<NL>> => pResult.kind = "OutOfBandError"
        /\ pLine = <<>> => pResult.kind = "ResponseError"

ZeroLengthGivesEmptyFrameWitness ==
    /\ FramedReadDone
    /\ pLine = <<ZERO, ZERO, NL>>
    /\ pResult.kind = "ok"
    /\ pResult.val = <<>>
    /\ pipei = <<97>>

\* C8: when the remote answers with a blank line in place of a length line
\* the read returns no result: it fails with OutOfBandError and the hint
\* "check previous remote output", and with automatic stderr reading on
\* the diagnostics pending on stderr have been forwarded to the ui.
BlankLineIsOutOfBand ==
    (FramedReadDone /\ pLine = <<NL>>) =>
        /\ pResult.kind = "OutOfBandError"
        /\ pResult.msg = "check previous remote output"
        /\ pAuto => EndsWith(ui, forwardoutput(pPending))

BlankLineIsOutOfBandWitness ==
    /\ pStage = "read"
    /\ pResult.op = "call"
    /\ pLine = <<NL>>
    /\ pAuto
    /\ pPending = ErrLine
    /\ pResult.kind = "OutOfBandError"
    /\ ui # <<>>
    /\ ui[Len(ui)] = ErrLine

\* C9, as stated: a length line that is not a decimal integer makes the
\* call fail with ResponseError, with stdin, stdout and stderr all closed
\* once the error has reached the caller.
UnparsableLengthIsResponseError ==
    (FramedReadDone /\ ~ParseInt(pLine).ok) =>
        /\ pResult.kind = "ResponseError"
        /\ pClosed = AllClosed

\* C9, amended: a length line that is not a decimal integer makes the call
\* fail with stdin, stdout and stderr all closed once the error has reached
\* the caller; the error is ResponseError unless the line is blank, and
\* OutOfBandError when it is.
UnparsableLengthAborts ==
    (FramedReadDone /\ ~ParseInt(pLine).ok) =>
        /\ pResult.kind = IF pLine = <<NL>> THEN "OutOfBandError" ELSE "ResponseError"
        /\ pClosed = AllClosed
        /\ pipee = <<>>

UnparsableLengthAbortsWitness ==
    /\ pStage = "read"
    /\ pResult.op = "call"
    /\ pLine = <<49, 120, NL>>
    /\ pResult.kind = "ResponseError"
    /\ pResult.msg = "unexpected response:"
    /\ pClosed = AllClosed

(***************************************************************************)
(* makepeer: the handshake on the pipes of a new connection                *)
(***************************************************************************)
max_noise == 500

FOOBAR == CAPSMARK \o <<SP, 102, 111, 111, SP, 98, 97, 114, NL>>
    \* 'capabilities: foo bar\n'
ACOLONB == CAPSMARK \o <<SP, 97, COLON, 98, NL>>
    \* 'capabilities: a:b\n'
NOTOKENS == CAPSMARK \o <<SP, NL>>
    \* 'capabilities: \n'
BANNER == <<104, 105, NL>>
    \* 'hi\n'
UPGRADEDV2 == UPGRADED \o <<SP>> \o Token \o <<SP>> \o SSHV2 \o <<NL>>
UPGRADEDV1 == UPGRADED \o <<SP>> \o Token \o <<SP>> \o SSHV1 \o <<NL>>
UPGRADEDV9 == UPGRADED \o <<SP>> \o Token \o <<SP, 118, 57, NL>>
UPGRADEDOTHER == UPGRADED \o <<SP>> \o OtherToken \o <<SP>> \o SSHV2 \o <<NL>>

\* The lines the remote may deliver on stdout; the empty one is end of file.
HsLines == {BANNER, UPGRADEDOTHER, FOOBAR, ACOLONB, NOTOKENS, ONELINE, <<NL>>, <<>>,
            UPGRADEDV2, UPGRADEDV1, UPGRADEDV9}

\* What the remote may send after acknowledging the upgrade.
HsBlobs ==
    { <<50, 49, NL>> \o FOOBAR \o <<122>>,     \* '21\ncapabilities: foo bar\nz'
      <<49, 56, NL>> \o FOOBAR,                \* '18\ncapabilities: foo bar\n'
      <<49, 52, NL>> \o NOTOKENS,              \* '14\ncapabilities: \n'
      <<51, NL, 102, 111, 111, NL>>,           \* '3\nfoo\n'
      <<120, NL>>,                             \* 'x\n'
      <<>> }

InitHs ==
    /\ hsPc = "start"
    /\ hsAdvertise \in BOOLEAN
    /\ hsLast = Dummy
    /\ hsCapsLine = <<>>
    /\ hsNoise = max_noise
    /\ hsProto = SSHV1
    /\ hsCaps = {}
    /\ hsEnd = [how |-> "", msg |-> ""]
    /\ hsBlob = NoBlob
    /\ hsAck = <<>>
    /\ pAuto = TRUE
    /\ pipei = <<>>
    /\ pipeo = <<>>
    /\ pFlushed = 0
    /\ pipee \in ErrData
    /\ pClosed = AllOpen
    /\ ui = <<>>
    /\ pStage = "idle"
    /\ pSent = <<>>
    /\ pTrail = <<>>
    /\ pLine = <<>>
    /\ pReads = 0
    /\ pErrs = 0
    /\ pPending = <<>>
    /\ pResult = NoResult
    /\ HsOnly

\* The peer class makepeer picks for the protocol name the handshake
\* returned, or the message of its last branch.
peerclass(protoname) ==
    IF protoname = SSHV1 THEN "sshv1peer"
    ELSE IF protoname = SSHV2 THEN "sshv2peer"
    ELSE "unknown version of SSH protocol"

\* A handshake that goes on after a bad response to the upgrade.
HsFail_upgradeok(how) ==
    /\ hsPc' = IF how = "upgraded" THEN "done" ELSE "failed"
    /\ hsEnd' = [how |-> how, msg |-> IF how = "upgraded" THEN "" ELSE NOSUITABLE]
    /\ hsCaps' = {}
    /\ ui' = ui \o forwardoutput(pipee)
    /\ pipee' = <<>>
    /\ pClosed' = IF how = "upgraded" THEN pClosed ELSE AllClosed

\* A scan whose end of file and used-up budget are not failures.
HsFail_scanok(how) ==
    /\ hsPc' = IF how \in {"eof", "noise"} THEN "done" ELSE "failed"
    /\ hsEnd' = [how |-> how, msg |-> IF how \in {"eof", "noise"} THEN "" ELSE NOSUITABLE]
    /\ hsCaps' = {}
    /\ ui' = ui \o forwardoutput(pipee)
    /\ pipee' = <<>>
    /\ pClosed' = IF how \in {"eof", "noise"} THEN pClosed ELSE AllClosed

\* A failure that leaves the pipes as they are.
HsFail_leaky(how) ==
    /\ hsPc' = "failed"
    /\ hsEnd' = [how |-> how, msg |-> NOSUITABLE]
    /\ hsCaps' = {}
    /\ ui' = ui \o forwardoutput(pipee)
    /\ pipee' = <<>>
    /\ pClosed' = pClosed

\* A bad response that is let through as a success.
HsFail_ignored(how) ==
    /\ hsPc' = "done"
    /\ hsEnd' = [how |-> how, msg |-> ""]
    /\ hsCaps' = {}
    /\ ui' = ui \o forwardoutput(pipee)
    /\ pipee' = <<>>
    /\ pClosed' = pClosed

\* badresponse() inside makepeer: stderr is forwarded, RepoError is raised,
\* and makepeer runs _cleanuppipes before the error goes on to the caller.
HsFail(how) ==
    /\ hsPc' = "failed"
    /\ hsEnd' = [how |-> how, msg |-> NOSUITABLE]
    /\ hsCaps' = {}
    /\ ui' = ui \o forwardoutput(pipee)
    /\ pipee' = <<>>
    /\ pClosed' = AllClosed

\* An IOError that no handler inside the handshake catches: makepeer runs
\* _cleanuppipes, which passes what is left on stderr to the ui, and the
\* IOError goes on to the caller.
HsRaiseIOError ==
    /\ hsPc' = "failed"
    /\ hsEnd' = [how |-> "ioerror", msg |-> "IOError"]
    /\ hsCaps' = {}
    /\ ui' = ui \o cleanuplines(pipee)
    /\ pipee' = <<>>
    /\ pClosed' = AllClosed

\* The handshake returns protoname and caps after a last look at stderr,
\* and makepeer builds the peer on the open pipes.
HsSucceed(how, caps) ==
    /\ hsPc' = "done"
    /\ hsEnd' = [how |-> how, msg |-> ""]
    /\ hsCaps' = caps
    /\ ui' = ui \o forwardoutput(pipee)
    /\ pipee' = <<>>
    /\ pClosed' = pClosed

\* A version 1 branch that accepts whatever capabilities it found.
HsLegacy_anycaps(how, capsline) == HsSucceed(how, legacycaps(capsline))

\* After the scan, for protoname SSHV1: the capabilities of the collected
\* lines, and badresponse() when there are none.
HsLegacy(how, capsline) ==
    IF legacycaps(capsline) = {} THEN HsFail(how)
    ELSE HsSucceed(how, legacycaps(capsline))

\* The request is written and flushed; an IOError is a bad response.
HsSendRequest ==
    /\ hsPc = "start"
    /\ \E ioerror \in BOOLEAN :
        IF ioerror
        THEN /\ HsFail("ioerror")
             /\ UNCHANGED <<pipeo, pFlushed>>
        ELSE /\ pipeo' = pipeo \o handshakerequest(hsAdvertise)
             /\ pFlushed' = Len(pipeo')
             /\ hsPc' = "scanning"
             /\ UNCHANGED <<hsEnd, hsCaps, ui, pipee, pClosed>>
    /\ UNCHANGED <<hsAdvertise, hsLast, hsCapsLine, hsNoise, hsProto, hsBlob, hsAck>>
    /\ UNCHANGED <<pAuto, pipei, pStage, pSent, pTrail, pLine, pReads, pErrs, pPending,
                   pResult, notHs>>

\* One turn of the scanning loop, with what follows it when the loop ends
\* there: the line l is read, stderr is forwarded, and l is an upgrade
\* acknowledgement, the blank line after a '1' line, or one more collected
\* line; the loop is left without a break when l is empty or the noise
\* budget is used up.
HsReadLine ==
    /\ hsPc = "scanning"
    /\ \E l \in HsLines, ioerror \in BOOLEAN :
        IF ioerror
        THEN /\ HsFail("ioerror")
             /\ UNCHANGED <<hsLast, hsCapsLine, hsNoise, hsProto, hsAck>>
        ELSE IF reupgraded(l)
        THEN /\ hsProto' = upgradedproto(l)
             /\ hsAck' = l
             /\ UNCHANGED <<hsLast, hsCapsLine, hsNoise>>
             /\ IF hsProto' = SSHV1 THEN HsLegacy("upgraded", hsCapsLine)
                ELSE IF hsProto' = SSHV2
                THEN /\ hsPc' = "upgraded"
                     /\ hsEnd' = [how |-> "upgraded", msg |-> ""]
                     /\ ui' = ui \o forwardoutput(pipee)
                     /\ pipee' = <<>>
                     /\ UNCHANGED <<hsCaps, pClosed>>
                ELSE HsFail("upgraded")
        ELSE IF hsLast = ONELINE /\ l = <<NL>>
        THEN /\ HsLegacy("between", hsCapsLine)
             /\ UNCHANGED <<hsLast, hsCapsLine, hsNoise, hsProto, hsAck>>
        ELSE /\ hsLast' = l
             /\ hsCapsLine' = lastcapsline(hsCapsLine, l)
             /\ hsNoise' = hsNoise - 1
             /\ UNCHANGED <<hsProto, hsAck>>
             /\ IF l = <<>> THEN HsFail("eof")
                ELSE IF hsNoise' = 0 THEN HsFail("noise")
                ELSE /\ ui' = ui \o forwardoutput(pipee)
                     /\ pipee' = <<>>
                     /\ UNCHANGED <<hsPc, hsEnd, hsCaps, pClosed>>
    /\ UNCHANGED <<hsAdvertise, hsBlob, pipei, pipeo, pFlushed>>
    /\ UNCHANGED <<pAuto, pStage, pSent, pTrail, pLine, pReads, pErrs, pPending,
                   pResult, notHs>>

\* The version 2 branch: the capabilities follow the acknowledgement.
HsReadUpgradedCaps ==
    /\ hsPc = "upgraded"
    /\ \E blob \in HsBlobs, ioerror \in BOOLEAN :
        LET got == upgradedcaps(blob)
        IN  IF ioerror
            THEN /\ HsRaiseIOError
                 /\ UNCHANGED <<pipei, hsBlob>>
            ELSE /\ pipei' = got.rest
                 /\ hsBlob' = [read |-> TRUE, data |-> blob]
                 /\ IF got.ok /\ got.caps # {} THEN HsSucceed("upgraded", got.caps)
                    ELSE HsFail("upgraded")
    /\ UNCHANGED <<hsAdvertise, hsLast, hsCapsLine, hsNoise, hsProto, hsAck, pipeo,
                   pFlushed>>
    /\ UNCHANGED <<pAuto, pStage, pSent, pTrail, pLine, pReads, pErrs, pPending,
                   pResult, notHs>>

NextHs ==
    \/ HsSendRequest
    \/ HsReadLine
    \/ HsReadUpgradedCaps

SpecHs == InitHs /\ [][NextHs]_vars

\* The text of a capabilities line after its 'capabilities:' marker.
AfterMarker(line) == SubSeq(line, Len(CAPSMARK) + 1, Len(line))

\* That text up to its first colon, or all of it when it has none.
FirstField(line) ==
    LET body == AfterMarker(line)
        i == IndexOf(body, COLON)
    IN  IF i = 0 THEN body ELSE SubSeq(body, 1, i - 1)

\* The scan ended at the blank line after a '1' line, with no upgrade
\* acknowledgement, after a line 'capabilities: <tokens>' was collected.
LegacyScanEnded ==
    /\ hsPc \in {"done", "failed"}
    /\ hsEnd.how = "between"
    /\ StartsWith(hsCapsLine, CAPSMARK \o <<SP>>)

\* C10, as stated: a response with a line 'capabilities: <tokens>', at
\* least one token, that ends the scan with a '1' line and a blank line and
\* has no upgrade acknowledgement negotiates version 1 with exactly the
\* whitespace-separated tokens of that line as capabilities.
LegacyHandshakeAllTokens ==
    (LegacyScanEnded /\ SplitTokens(AfterMarker(hsCapsLine)) # {}) =>
        /\ hsPc = "done"
        /\ hsProto = SSHV1
        /\ hsCaps = SplitTokens(AfterMarker(hsCapsLine))

\* C10, amended: such a response negotiates version 1 with, as
\* capabilities, the whitespace-separated tokens that the last line
\* beginning 'capabilities:' holds between that marker and its next colon;
\* text from that colon on is dropped, and when no token is left the
\* handshake fails with 'no suitable response from remote hg'.
LegacyHandshakeFirstField ==
    LegacyScanEnded =>
        IF SplitTokens(FirstField(hsCapsLine)) = {}
        THEN hsPc = "failed" /\ hsEnd.msg = NOSUITABLE
        ELSE /\ hsPc = "done"
             /\ hsProto = SSHV1
             /\ hsCaps = SplitTokens(FirstField(hsCapsLine))

LegacyHandshakeFirstFieldWitness ==
    /\ hsPc = "done"
    /\ hsEnd.how = "between"
    /\ hsCapsLine = FOOBAR
    /\ hsNoise = max_noise - 3
    /\ hsProto = SSHV1
    /\ hsCaps = {<<102, 111, 111>>, <<98, 97, 114>>}

\* The value a length-prefixed blob announces: as many bytes after its
\* length line as the line says.
BlobValue(blob) ==
    LET i == IndexOf(blob, NL)
        n == ParseInt(SubSeq(blob, 1, i)).val
        body == SubSeq(blob, i + 1, Len(blob))
    IN  SubSeq(body, 1, IF n < Len(body) THEN n ELSE Len(body))

\* The blob is a decimal length line followed by a value that starts with
\* 'capabilities: '.
BlobWellFormed(blob) ==
    /\ ParseInt(ReadLine(blob).line).ok
    /\ StartsWith(BlobValue(blob), CAPSMARK \o <<SP>>)

\* The handshake is over, with a peer or with an error.
HsOver == hsPc \in {"done", "failed"}

\* C11, as stated: after a line 'upgraded <token> <version>' with this
\* handshake's token the scan has stopped, the lines collected before it are
\* not searched, and negotiation yields the version named in that line with
\* the capabilities of the length-prefixed blob that follows, a well-formed
\* blob with a token being understood.
UpgradeYieldsNamedVersion ==
    hsEnd.how = "upgraded" =>
        /\ hsPc # "scanning"
        /\ (HsOver /\ (hsBlob.read =>
                          /\ BlobWellFormed(hsBlob.data)
                          /\ SplitTokens(FirstField(BlobValue(hsBlob.data))) # {})) =>
              /\ hsPc = "done"
              /\ hsBlob.read
              /\ hsCaps = SplitTokens(FirstField(BlobValue(hsBlob.data)))

\* C11, amended: after such a line the scan has stopped.  When the version
\* named is SSHV2 the collected lines are not searched: the blob that
\* follows is read and negotiation yields SSHV2 with the capabilities of
\* the blob when it is well formed and holds a token, and fails otherwise.
\* When the version named is SSHV1 no blob is read and the capabilities are
\* those of the last collected 'capabilities:' line, as on the legacy path.
\* Any other version makes the handshake fail.
UpgradeYieldsKnownVersion ==
    hsEnd.how = "upgraded" =>
        /\ hsPc # "scanning"
        /\ hsPc = "upgraded" => hsProto = SSHV2 /\ ~hsBlob.read
        /\ (HsOver /\ hsProto = SSHV2) =>
              /\ hsBlob.read
              /\ IF BlobWellFormed(hsBlob.data)
                    /\ SplitTokens(FirstField(BlobValue(hsBlob.data))) # {}
                 THEN /\ hsPc = "done"
                      /\ hsCaps = SplitTokens(FirstField(BlobValue(hsBlob.data)))
                 ELSE hsPc = "failed"
        /\ (HsOver /\ hsProto = SSHV1) =>
              /\ ~hsBlob.read
              /\ IF hsCapsLine # <<>> /\ SplitTokens(FirstField(hsCapsLine)) # {}
                 THEN hsPc = "done" /\ hsCaps = SplitTokens(FirstField(hsCapsLine))
                 ELSE hsPc = "failed"
        /\ (HsOver /\ hsProto \notin {SSHV1, SSHV2}) => hsPc = "failed" /\ ~hsBlob.read

\* An upgrade to SSHV2 acknowledged after a legacy capabilities line was
\* collected: the capabilities are the blob's.
UpgradeYieldsKnownVersionWitness ==
    /\ hsPc = "done"
    /\ hsEnd.how = "upgraded"
    /\ hsProto = SSHV2
    /\ hsCapsLine = ACOLONB
    /\ hsBlob.read
    /\ hsCaps = {<<102, 111, 111>>, <<98, 97, 114>>}
    /\ pipei = <<122>>

\* t occurs in s.
Contains(s, t) == \E i \in 1..(Len(s) - Len(t) + 1) : SubSeq(s, i, i + Len(t) - 1) = t

\* The words of a line, split at single spaces, without its line end.
Words(l) == Split(IF l # <<>> /\ l[Len(l)] = NL THEN Most(l) ELSE l, SP)

\* C12: a line 'upgraded <t> <version>' whose <t> is not the token of this
\* handshake is never taken as the acknowledgement: it is collected as a
\* noise line, and the version stays SSHV1 unless a line with the matching
\* token arrived.  The token reaches the remote in the request only when
\* upgrade advertising is on, so without advertising a remote that learns
\* the token from the request alone cannot move the version off SSHV1.
WrongTokenIsNoise ==
    /\ hsAck # <<>> => (Words(hsAck)[1] = UPGRADED /\ Words(hsAck)[2] = Token)
    /\ hsProto # SSHV1 => hsAck # <<>>
    /\ hsEnd.how = "upgraded" => hsAck # <<>>
    /\ (hsPc = "done" /\ hsAck # <<>>) => hsEnd.how = "upgraded"
    /\ (hsPc = "scanning" /\ hsLast = UPGRADEDOTHER) => (hsAck = <<>> /\ hsProto = SSHV1)
    /\ (hsPc # "start" /\ pipeo # <<>>) => (Contains(pipeo, Token) <=> hsAdvertise)

\* A line with another token was collected while scanning without
\* advertising, and the version is still SSHV1.
WrongTokenIsNoiseWitness ==
    /\ hsPc = "scanning"
    /\ ~hsAdvertise
    /\ hsLast = UPGRADEDOTHER
    /\ hsNoise = max_noise - 2
    /\ hsProto = SSHV1
    /\ ~Contains(pipeo, Token)

\* C13: a response of banner lines only, with no upgrade acknowledgement
\* and no '1' line followed by a blank line within the noise budget, makes
\* the handshake fail with 'no suitable response from remote hg'; a peer
\* is made only when the scan ended at one of the two terminators, with
\* budget left.
NoiseOnlyFails ==
    /\ hsEnd.how \in {"noise", "eof"} =>
          /\ hsPc = "failed"
          /\ hsEnd.msg = NOSUITABLE
          /\ hsCaps = {}
    /\ hsEnd.how = "noise" => hsNoise = 0
    /\ hsPc = "done" => (hsEnd.how \in {"between", "upgraded"} /\ hsNoise > 0)

\* The budget of max_noise lines was used up by banner lines alone.
NoiseOnlyFailsWitness ==
    /\ hsPc = "failed"
    /\ hsEnd.how = "noise"
    /\ hsNoise = 0
    /\ hsLast = BANNER
    /\ hsCapsLine = <<>>
    /\ hsAck = <<>>
    /\ pClosed = AllClosed

\* C14: on every failure of makepeer (an I/O error while the request is
\* written or the reply is read, the noise budget used up, capabilities
\* missing or malformed, an unknown protocol name) stdin, stdout and stderr
\* are all closed when the error reaches the caller and no peer is returned;
\* until then, and after a success, the pipes are open.
FailureClosesPipes ==
    /\ hsPc = "failed" =>
          /\ pClosed = AllClosed
          /\ pipee = <<>>
          /\ hsCaps = {}
          /\ hsEnd.msg \in {NOSUITABLE, "IOError"}
    /\ hsPc \in {"start", "scanning", "upgraded", "done"} => pClosed = AllOpen

\* An acknowledgement naming an unknown protocol failed the handshake after
\* the diagnostics of the remote were passed on.
FailureClosesPipesWitness ==
    /\ hsPc = "failed"
    /\ hsEnd.how = "upgraded"
    /\ hsAck = UPGRADEDV9
    /\ ui # <<>>
    /\ pClosed = AllClosed

\* C15: a handshake never succeeds with an empty capability set: on the
\* legacy path and on the upgraded path alike, when no capability token was
\* found (no capabilities line, or a line or blob without tokens) the
\* handshake fails, so every peer made has capabilities.
NeverEmptyCapabilities ==
    /\ hsPc = "done" => hsCaps # {}
    /\ (HsOver /\ hsEnd.how = "between" /\ hsCapsLine \in {<<>>, NOTOKENS}) => hsPc = "failed"
    /\ (HsOver /\ hsBlob.read
           /\ (BlobWellFormed(hsBlob.data) =>
                 SplitTokens(FirstField(BlobValue(hsBlob.data))) = {})) => hsPc = "failed"
    /\ hsPc = "failed" => hsCaps = {}

\* The scan ended at the terminator after a capabilities line without
\* tokens, and the handshake failed.
NeverEmptyCapabilitiesWitness ==
    /\ hsPc = "failed"
    /\ hsEnd.how = "between"
    /\ hsCapsLine = NOTOKENS
    /\ hsEnd.msg = NOSUITABLE

(***************************************************************************)
(* doublepipe: a main pipe operated with a side pipe                       *)
(***************************************************************************)
MaxDpOps == 2
MaxDpSent == 2
MaxReadSize == 2

\* The operations issued on the wrapper.
DpReads ==
    {[op |-> "read", size |-> n, data |-> <<>>, blocked |-> FALSE] : n \in 0..MaxReadSize}
    \cup {[op |-> "readline", size |-> 0, data |-> <<>>, blocked |-> FALSE]}
DpWrites ==
    {[op |-> "write", size |-> 0, data |-> d, blocked |-> FALSE] : d \in {<<>>, <<97>>}}

\* What the remote emits: on the main pipe, and on the side pipe.
DpMainChunks == {<<97>>, <<98, NL>>}
DpSideChunks == {ErrLine, <<101>>}

InitDp ==
    /\ dpKind \in {"in", "out"}
    /\ dpPoll \in BOOLEAN
    /\ dpMain = <<>>
    /\ dpBuf = <<>>
    /\ dpEof = FALSE
    /\ dpSide = <<>>
    /\ dpClosed = [main |-> FALSE, side |-> FALSE]
    /\ dpUi = <<>>
    /\ dpCall = NoCall
    /\ dpRet = NoRet
    /\ dpTrace = <<>>
    /\ dpOps = 0
    /\ dpSent = 0
    /\ DpOnly

\* data is not None and not data: read(0) and write('').
DpNoData(c) ==
    \/ c.op = "read" /\ c.size = 0
    \/ c.op = "write" /\ c.data = <<>>

\* A poll that never returns.
DpWaits_stuck == {}

\* doublepipe._wait(): the pairs (ismainready, issideready) it can return.
\* A bufferedinputpipe with buffered data is ready with the side assumed
\* ready; without util.poll both are assumed ready; otherwise poll blocks
\* until one of the two has something to read.
DpWaits ==
    IF dpKind = "in" /\ dpBuf # <<>> THEN {[main |-> TRUE, side |-> TRUE]}
    ELSE IF ~dpPoll THEN {[main |-> TRUE, side |-> TRUE]}
    ELSE IF dpKind = "in"
         THEN {w \in {[main |-> dpMain # <<>> \/ dpEof, side |-> dpSide # <<>>]} :
                 w.main \/ w.side}
    ELSE {w \in [main : BOOLEAN, side : {dpSide # <<>>}] : w.main \/ w.side}

\* The method of the main pipe can return with what is available.
DpCompletable(c, avail) ==
    \/ c.op = "write"
    \/ dpEof
    \/ c.op = "read" /\ Len(avail) >= c.size
    \/ c.op = "readline" /\ IndexOf(avail, NL) # 0

\* What the method of the main pipe returns, and what it leaves.
DpPerform(c, avail) ==
    IF c.op = "read" THEN ReadBytes(avail, c.size)
    ELSE IF c.op = "readline"
         THEN [data |-> ReadLine(avail).line, rest |-> ReadLine(avail).rest]
    ELSE [data |-> <<>>, rest |-> <<>>]

DpWaitEvent(w) == [ev |-> "wait", main |-> w.main, side |-> w.side, avail |-> dpSide]
DpForwardEvent(by, data) == [ev |-> "forward", by |-> by, data |-> data]
DpMainEvent(c) == [ev |-> "main", op |-> c.op]

\* if sideready: _forwardoutput(self._ui, self._side)
DpSideForwarded_idle(w) == FALSE

DpSideForwarded(w) == w.side

DpReadRetry_anysize(c, val) == c.op = "read" /\ val = <<>>

\* The check read() makes of what _call returned: one more forwarding pass
\* when size is not 0 and nothing was read.
DpReadRetry(c, val) == c.op = "read" /\ c.size # 0 /\ val = <<>>

\* An operation is issued on the wrapper.
DpBegin ==
    /\ dpCall.op = "none"
    /\ ~dpClosed.side
    /\ dpOps < MaxDpOps
    /\ \E c \in (IF dpKind = "in" THEN DpReads ELSE DpWrites) : dpCall' = c
    /\ dpTrace' = <<>>
    /\ dpOps' = dpOps + 1
    /\ UNCHANGED <<dpKind, dpPoll, dpMain, dpBuf, dpEof, dpSide, dpClosed, dpUi, dpRet,
                   dpSent, notDp>>

\* One pass through doublepipe._call, with the check of read() when the
\* call returns: without data, or on a closed main pipe, the side is
\* forwarded and '' is returned; otherwise after _wait the side is
\* forwarded when it is ready, then the method of the main pipe is called
\* when the main pipe is ready.
DpStep ==
    /\ dpCall.op # "none"
    /\ ~dpCall.blocked
    /\ LET early == DpNoData(dpCall) \/ dpClosed.main
       IN  \E w \in (IF early THEN {[main |-> FALSE, side |-> TRUE]} ELSE DpWaits) :
           LET fwd == DpSideForwarded(w)
               side1 == IF fwd THEN <<>> ELSE dpSide
               ui1 == IF fwd THEN dpUi \o forwardoutput(dpSide) ELSE dpUi
               tr1 == dpTrace \o (IF early THEN <<>> ELSE <<DpWaitEvent(w)>>)
                              \o (IF fwd THEN <<DpForwardEvent("call", dpSide)>>
                                  ELSE <<>>)
               avail == dpBuf \o dpMain
               res == DpPerform(dpCall, avail)
               returns == early \/ (w.main /\ DpCompletable(dpCall, avail))
               val == IF early THEN <<>> ELSE res.data
               retry == returns /\ DpReadRetry(dpCall, val)
           IN  /\ dpTrace' = tr1 \o (IF w.main THEN <<DpMainEvent(dpCall)>> ELSE <<>>)
                                 \o (IF retry THEN <<DpForwardEvent("read", side1)>>
                                     ELSE <<>>)
               /\ dpUi' = IF retry THEN ui1 \o forwardoutput(side1) ELSE ui1
               /\ dpSide' = IF retry THEN <<>> ELSE side1
               /\ dpCall' = IF returns THEN NoCall
                            ELSE [dpCall EXCEPT !.blocked = w.main]
               /\ dpRet' = IF returns
                           THEN [op |-> dpCall.op, size |-> dpCall.size,
                                 data |-> dpCall.data, val |-> val]
                           ELSE dpRet
               /\ dpMain' = IF ~returns \/ early THEN dpMain
                            ELSE IF dpKind = "out" THEN dpMain \o dpCall.data
                            ELSE <<>>
               /\ dpBuf' = IF ~returns \/ early \/ dpKind = "out" THEN dpBuf ELSE res.rest
    /\ UNCHANGED <<dpKind, dpPoll, dpEof, dpClosed, dpOps, dpSent, notDp>>

\* The method of the main pipe, which was blocked, returns; read() makes
\* its check.
DpUnblock ==
    /\ dpCall.blocked
    /\ DpCompletable(dpCall, dpBuf \o dpMain)
    /\ LET res == DpPerform(dpCall, dpBuf \o dpMain)
           retry == DpReadRetry(dpCall, res.data)
       IN  /\ dpTrace' = dpTrace \o (IF retry THEN <<DpForwardEvent("read", dpSide)>>
                                     ELSE <<>>)
           /\ dpUi' = IF retry THEN dpUi \o forwardoutput(dpSide) ELSE dpUi
           /\ dpSide' = IF retry THEN <<>> ELSE dpSide
           /\ dpRet' = [op |-> dpCall.op, size |-> dpCall.size, data |-> dpCall.data,
                        val |-> res.data]
           /\ dpBuf' = res.rest
    /\ dpMain' = <<>>
    /\ dpCall' = NoCall
    /\ UNCHANGED <<dpKind, dpPoll, dpEof, dpClosed, dpOps, dpSent, notDp>>

DpClose_both ==
    /\ dpCall.op = "none"
    /\ ~dpClosed.main
    /\ dpClosed' = [main |-> TRUE, side |-> TRUE]
    /\ dpRet' = [op |-> "close", size |-> 0, data |-> <<>>, val |-> <<>>]
    /\ dpTrace' = <<>>
    /\ UNCHANGED <<dpKind, dpPoll, dpMain, dpBuf, dpEof, dpSide, dpUi, dpCall, dpOps,
                   dpSent, notDp>>

\* doublepipe.close()
DpClose ==
    /\ dpCall.op = "none"
    /\ ~dpClosed.main
    /\ dpClosed' = [dpClosed EXCEPT !.main = TRUE]
    /\ dpRet' = [op |-> "close", size |-> 0, data |-> <<>>, val |-> <<>>]
    /\ dpTrace' = <<>>
    /\ UNCHANGED <<dpKind, dpPoll, dpMain, dpBuf, dpEof, dpSide, dpUi, dpCall, dpOps,
                   dpSent, notDp>>

\* The teardown of the peer that owns the pipes: _cleanuppipes closes the
\* main pipe, passes the rest of the side pipe to the ui and closes it.
DpTeardown ==
    /\ dpCall.op = "none"
    /\ ~dpClosed.side
    /\ dpClosed' = [main |-> TRUE, side |-> TRUE]
    /\ dpUi' = dpUi \o cleanuplines(dpSide)
    /\ dpSide' = <<>>
    /\ dpRet' = [op |-> "teardown", size |-> 0, data |-> <<>>, val |-> <<>>]
    /\ dpTrace' = <<>>
    /\ UNCHANGED <<dpKind, dpPoll, dpMain, dpBuf, dpEof, dpCall, dpOps, dpSent, notDp>>

\* The remote writes to its stdout, writes to its stderr, or closes its
\* stdout.
DpRemoteMain ==
    /\ dpKind = "in"
    /\ ~dpEof
    /\ dpSent < MaxDpSent
    /\ \E d \in DpMainChunks : dpMain' = dpMain \o d
    /\ dpSent' = dpSent + 1
    /\ UNCHANGED <<dpKind, dpPoll, dpBuf, dpEof, dpSide, dpClosed, dpUi, dpCall, dpRet,
                   dpTrace, dpOps, notDp>>

DpRemoteSide ==
    /\ ~dpClosed.side
    /\ dpSent < MaxDpSent
    /\ \E d \in DpSideChunks : dpSide' = dpSide \o d
    /\ dpSent' = dpSent + 1
    /\ UNCHANGED <<dpKind, dpPoll, dpMain, dpBuf, dpEof, dpClosed, dpUi, dpCall, dpRet,
                   dpTrace, dpOps, notDp>>

DpRemoteEof ==
    /\ dpKind = "in"
    /\ ~dpEof
    /\ dpEof' = TRUE
    /\ UNCHANGED <<dpKind, dpPoll, dpMain, dpBuf, dpSide, dpClosed, dpUi, dpCall, dpRet,
                   dpTrace, dpOps, dpSent, notDp>>

NextDp ==
    \/ DpBegin
    \/ DpStep
    \/ DpUnblock
    \/ DpClose
    \/ DpTeardown
    \/ DpRemoteMain
    \/ DpRemoteSide
    \/ DpRemoteEof

SpecDp == InitDp /\ [][NextDp]_vars

\* The thread inside _call keeps running: a pass through the loop that can
\* be made is made, and a method of the main pipe that can return returns.
\* Nothing obliges the remote to send, nor the caller to issue operations.
SpecDpLive == SpecDp /\ WF_vars(DpStep) /\ WF_vars(DpUnblock)

\* C16: in every read, readline and non-empty write on a doublepipe, each
\* wait that reports the side pipe ready is followed at once by the
\* forwarding of all the data then available on the side pipe, whether or
\* not there is any, and the method of the main pipe is called only after it.
DpWaitAt(i) == i >= 1 /\ i <= Len(dpTrace) /\ dpTrace[i].ev = "wait"
DpCallForwardAt(i) ==
    /\ i >= 1
    /\ i <= Len(dpTrace)
    /\ dpTrace[i].ev = "forward"
    /\ dpTrace[i].by = "call"

SideForwardedBeforeMain ==
    \A i \in 1..Len(dpTrace) :
        /\ (DpWaitAt(i) /\ dpTrace[i].side) =>
               /\ DpCallForwardAt(i + 1)
               /\ dpTrace[i + 1].data = dpTrace[i].avail
        /\ dpTrace[i].ev = "main" =>
               \/ DpWaitAt(i - 1) /\ ~dpTrace[i - 1].side /\ dpTrace[i - 1].main
               \/ /\ DpCallForwardAt(i - 1)
                  /\ DpWaitAt(i - 2)
                  /\ dpTrace[i - 2].side
                  /\ dpTrace[i - 2].main

SideForwardedBeforeMainWitness ==
    /\ dpRet.op \in {"read", "readline", "write"}
    /\ dpCall.op = "none"
    /\ dpUi # <<>>
    /\ \E i \in 1..Len(dpTrace) :
           /\ DpWaitAt(i)
           /\ dpTrace[i].side
           /\ dpTrace[i].avail # <<>>
           /\ DpCallForwardAt(i + 1)
           /\ i + 2 <= Len(dpTrace)
           /\ dpTrace[i + 2].ev = "main"

\* C17: a read(size) that has returned made one forwarding pass of its own,
\* the last thing it did, when size is not 0 and the result is empty, and
\* none otherwise.
DpReadForwards == {i \in 1..Len(dpTrace) : dpTrace[i].ev = "forward" /\ dpTrace[i].by = "read"}

OneMorePassOnEmptyRead ==
    (dpRet.op = "read" /\ dpCall.op = "none") =>
        IF dpRet.size # 0 /\ dpRet.val = <<>>
        THEN DpReadForwards = {Len(dpTrace)} /\ Len(dpTrace) >= 1
        ELSE DpReadForwards = {}

OneMorePassOnEmptyReadWitness ==
    /\ dpRet.op = "read"
    /\ dpCall.op = "none"
    /\ dpRet.size # 0
    /\ dpRet.val = <<>>
    /\ ~dpClosed.main
    /\ DpReadForwards = {Len(dpTrace)}
    /\ dpTrace[Len(dpTrace)].data # <<>>

\* C18: close() closes the main pipe and leaves the side pipe as it was:
\* open or closed, with the same unread data, nothing of it forwarded.
DpCloseStep == ~dpClosed.main /\ dpRet'.op = "close" /\ dpCall.op = "none"

CloseLeavesSide ==
    [][DpCloseStep =>
          /\ dpClosed'.main
          /\ dpClosed'.side = dpClosed.side
          /\ dpSide' = dpSide
          /\ dpUi' = dpUi]_vars

CloseLeavesSideWitness ==
    /\ dpRet.op = "close"
    /\ dpClosed.main
    /\ ~dpClosed.side
    /\ dpSide # <<>>

\* C19: once call has sent a request for a command, the output pipe holds
\* the command name line, then for each declared argument a
\* "<name> <length>" line and the raw bytes, the arguments in ascending
\* order of their names, and all of it is flushed before the response is
\* read; when the argument map lacks a declared argument the call fails
\* with the command line written and nothing flushed.
ArgumentOrders(keys) ==
    {o \in [1..Len(keys) -> {keys[i] : i \in 1..Len(keys)}] :
        \A i, j \in 1..Len(keys) : i # j => o[i] # o[j]}
Ascending(o) == \A i \in 1..(Len(o) - 1) : LexLess(o[i], o[i + 1])
RequestInOrder(c, o) ==
    c.cmd \o <<NL>>
    \o Concat([i \in 1..Len(o) |->
                  o[i] \o <<SP>> \o FormatInt(Len(c.args[o[i]])) \o <<NL>> \o c.args[o[i]]])
RequestSent == pResult.op = "call" /\ pResult.kind = "sent"
Complete(c) == \A i \in 1..Len(commands(c.cmd)) : commands(c.cmd)[i] \in DOMAIN c.args

PushChunk == 4096
MaxChunks == 2

\* The payload readers: empty, one byte, and around whole numbers of chunks.
PayloadOf(n) == [i \in 1..n |-> 97 + (i % 3)]
PushPayloads ==
    {PayloadOf(n) : n \in {0, 1} \cup {PushChunk * k + d : k \in 1..MaxChunks, d \in {0, 1}}}

PushCall == [cmd |-> UNBUNDLE, args |-> (HEADS :> <<104>>)]
PushError == <<101, 114, 114>>                     \* 'err'
Frame(d) == frameheader(d) \o d

\* What the remote answers to the call, and once the payload is complete.
PushAnswers == {Frame(<<>>), Frame(PushError), <<NL>>, <<120, NL>>}
PushReplies ==
    { Frame(<<>>) \o Frame(<<49>>),
      Frame(<<>>) \o Frame(<<>>),
      Frame(PushError),
      Frame(PushError) \o Frame(<<49>>),
      <<NL>>,
      Frame(<<>>) \o <<120, NL>> }

\* _readframed on the bytes buf of the pipe: the length line, then the data.
readframed(buf) ==
    LET rl == ReadLine(buf)
        ga == getamount(rl.line)
        rd == ReadBytes(rl.rest, ga.amount)
    IN  IF ga.kind = "amount"
        THEN [kind |-> "ok", data |-> rd.data, rest |-> rd.rest]
        ELSE [kind |-> ga.kind, data |-> <<>>, rest |-> rl.rest]

\* if r: return '', r
pushrefused_never(r) == FALSE

pushrefused(r) == r # <<>>

InitPush ==
    /\ pAuto \in BOOLEAN
    /\ pipei = <<>>
    /\ pipeo = <<>>
    /\ pFlushed = 0
    /\ pipee \in ErrData
    /\ pClosed = AllOpen
    /\ ui = <<>>
    /\ pStage = "connected"
    /\ pSent = <<>>
    /\ pTrail = <<>>
    /\ pLine = <<>>
    /\ pReads = 0
    /\ pErrs = 0
    /\ pPending = <<>>
    /\ pResult = NoResult
    /\ fpData \in PushPayloads
    /\ fp = fpData
    /\ pushFrames = <<>>
    /\ pushRet = NoPush
    /\ pushReply = <<>>
    /\ PushOnly

\* The request of self._call(cmd, **args): _sendrequest up to the flush.
PushSendRequest ==
    /\ pStage = "connected"
    /\ \E req \in {sendrequest(PushCall.cmd, PushCall.args)} :
        /\ pipeo' = pipeo \o req.bytes
        /\ pFlushed' = Len(pipeo')
    /\ ui' = ui \o ForwardedNow
    /\ pipee' = ErrLeft
    /\ pStage' = "requested"
    /\ UNCHANGED <<pAuto, pipei, pClosed, pSent, pTrail, pLine, pReads, pErrs, pPending,
                   pResult, pushVars, notPush>>

PushRemoteAnswer ==
    /\ pStage = "requested"
    /\ \E r \in PushAnswers : pipei' = pipei \o r
    /\ pStage' = "answered"
    /\ UNCHANGED <<pAuto, pipeo, pFlushed, pipee, pClosed, ui, pSent, pTrail, pLine, pReads,
                   pErrs, pPending, pResult, pushVars, notPush>>

\* r = self._call(cmd, **args); if r: return '', r
\* A response that is no frame aborts the peer.
PushReadAnswer ==
    /\ pStage = "answered"
    /\ \E r \in {readframed(pipei)} :
        /\ pipei' = r.rest
        /\ pResult' = [op |-> "call", kind |-> r.kind, val |-> r.data, msg |-> ""]
        /\ IF r.kind # "ok"
           THEN /\ pStage' = "failed"
                /\ pushRet' = [kind |-> r.kind, ret |-> <<>>, err |-> <<>>]
                /\ ui' = ui \o ForwardedNow \o cleanuplines(ErrLeft)
                /\ pClosed' = AllClosed
                /\ pipee' = <<>>
           ELSE /\ pStage' = IF pushrefused(r.data) THEN "done" ELSE "streaming"
                /\ pushRet' = IF pushrefused(r.data)
                              THEN [kind |-> "ok", ret |-> <<>>, err |-> r.data]
                              ELSE pushRet
                /\ ui' = ui \o ForwardedNow
                /\ pClosed' = pClosed
                /\ pipee' = ErrLeft
    /\ pLine' = ReadLine(pipei).line
    /\ pReads' = pReads + 1
    /\ UNCHANGED <<pAuto, pipeo, pFlushed, pSent, pTrail, pErrs, pPending, fp, fpData,
                   pushFrames, pushReply, notPush>>

\* for d in iter(lambda: fp.read(4096), ''): self._writeframed(d)
PushWriteFrame ==
    /\ pStage = "streaming"
    /\ fp # <<>>
    /\ \E d \in {ReadBytes(fp, PushChunk)} :
        /\ fp' = d.rest
        /\ pipeo' = pipeo \o frameheader(d.data) \o d.data
        /\ pushFrames' = Append(pushFrames, d.data)
    /\ ui' = ui \o ForwardedNow
    /\ pipee' = ErrLeft
    /\ UNCHANGED <<pAuto, pipei, pFlushed, pClosed, pStage, pSent, pTrail, pLine, pReads,
                   pErrs, pPending, pResult, fpData, pushRet, pushReply, notPush>>

\* self._writeframed("", flush=True), once fp.read returned ''
PushWriteLast ==
    /\ pStage = "streaming"
    /\ fp = <<>>
    /\ pipeo' = pipeo \o frameheader(<<>>)
    /\ pFlushed' = Len(pipeo')
    /\ pushFrames' = Append(pushFrames, <<>>)
    /\ ui' = ui \o ForwardedNow
    /\ pipee' = ErrLeft
    /\ pStage' = "flushed"
    /\ UNCHANGED <<pAuto, pipei, pClosed, pSent, pTrail, pLine, pReads, pErrs, pPending,
                   pResult, fp, fpData, pushRet, pushReply, notPush>>

PushRemoteReply ==
    /\ pStage = "flushed"
    /\ \E r \in PushReplies :
        /\ pipei' = pipei \o r
        /\ pushReply' = r
    /\ pStage' = "replied"
    /\ UNCHANGED <<pAuto, pipeo, pFlushed, pipee, pClosed, ui, pSent, pTrail, pLine, pReads,
                   pErrs, pPending, pResult, fp, fpData, pushFrames, pushRet, notPush>>

\* r = self._readframed(); if r: return '', r; return self._readframed(), ''
PushReadReply ==
    /\ pStage = "replied"
    /\ \E r1 \in {readframed(pipei)} : \E r2 \in {readframed(r1.rest)} :
        IF r1.kind # "ok" \/ (~pushrefused(r1.data) /\ r2.kind # "ok")
        THEN /\ pStage' = "failed"
             /\ pushRet' = [kind |-> IF r1.kind # "ok" THEN r1.kind ELSE r2.kind,
                            ret |-> <<>>, err |-> <<>>]
             /\ pipei' = IF r1.kind # "ok" THEN r1.rest ELSE r2.rest
             /\ pReads' = IF r1.kind # "ok" THEN pReads + 1 ELSE pReads + 2
             /\ pLine' = IF r1.kind # "ok" THEN ReadLine(pipei).line
                         ELSE ReadLine(r1.rest).line
             /\ ui' = ui \o ForwardedNow \o cleanuplines(ErrLeft)
             /\ pClosed' = AllClosed
             /\ pipee' = <<>>
        ELSE /\ pStage' = "done"
             /\ pushRet' = IF pushrefused(r1.data)
                           THEN [kind |-> "ok", ret |-> <<>>, err |-> r1.data]
                           ELSE [kind |-> "ok", ret |-> r2.data, err |-> <<>>]
             /\ pipei' = IF pushrefused(r1.data) THEN r1.rest ELSE r2.rest
             /\ pReads' = IF pushrefused(r1.data) THEN pReads + 1 ELSE pReads + 2
             /\ pLine' = IF pushrefused(r1.data) THEN ReadLine(pipei).line
                         ELSE ReadLine(r1.rest).line
             /\ ui' = ui \o ForwardedNow
             /\ pClosed' = pClosed
             /\ pipee' = ErrLeft
    /\ UNCHANGED <<pAuto, pipeo, pFlushed, pSent, pTrail, pErrs, pPending, pResult, fp,
                   fpData, pushFrames, pushReply, notPush>>

NextPush ==
    \/ PushSendRequest
    \/ PushRemoteAnswer
    \/ PushReadAnswer
    \/ PushWriteFrame
    \/ PushWriteLast
    \/ PushRemoteReply
    \/ PushReadReply

SpecPush == InitPush /\ [][NextPush]_vars

\* C20: _callpush sends nothing of the payload unless the frame answering
\* the call is empty, and returns a non-empty answer as the error; otherwise
\* it writes the payload in order as non-empty frames of at most PushChunk
\* bytes, then exactly one empty frame, and flushes; then it reads one frame
\* and returns it as the error when it is non-empty, leaving what follows
\* unread, and else reads a second frame and returns it as the result.
PushRequestBytes ==
    PushCall.cmd \o <<NL>> \o HEADS \o <<SP>> \o FormatInt(Len(PushCall.args[HEADS]))
    \o <<NL>> \o PushCall.args[HEADS]
PushFrameBytes ==
    Concat([i \in 1..Len(pushFrames) |->
               FormatInt(Len(pushFrames[i])) \o <<NL>> \o pushFrames[i]])
PushAnswered == pResult.op = "call" /\ pResult.kind = "ok"
PushContentOk(n) ==
    \A i \in 1..n : Len(pushFrames[i]) >= 1 /\ Len(pushFrames[i]) <= PushChunk
PushStreamed == pushFrames # <<>> /\ pStage # "streaming"
PushReplyData == {<<>>, <<49>>, PushError}

PushStreamProtocol ==
    /\ pStage # "connected" => pipeo = PushRequestBytes \o PushFrameBytes
    /\ pushFrames # <<>> => PushAnswered /\ pResult.val = <<>>
    /\ (PushAnswered /\ pResult.val # <<>>) =>
           /\ pushFrames = <<>>
           /\ fp = fpData
           /\ pushRet = [kind |-> "ok", ret |-> <<>>, err |-> pResult.val]
           /\ pReads = 1
    /\ pStage = "streaming" =>
           /\ PushContentOk(Len(pushFrames))
           /\ Concat(pushFrames) \o fp = fpData
    /\ PushStreamed =>
           /\ PushContentOk(Len(pushFrames) - 1)
           /\ pushFrames[Len(pushFrames)] = <<>>
           /\ Concat(Most(pushFrames)) = fpData
           /\ pFlushed = Len(pipeo)
    /\ (PushStreamed /\ pushRet.kind = "ok") =>
           \/ \E e \in PushReplyData \ {<<>>} :
                  /\ pushReply = Frame(e) \o pipei
                  /\ pushRet = [kind |-> "ok", ret |-> <<>>, err |-> e]
                  /\ pReads = 2
           \/ \E x \in PushReplyData :
                  /\ pushReply = Frame(<<>>) \o Frame(x) \o pipei
                  /\ pushRet = [kind |-> "ok", ret |-> x, err |-> <<>>]
                  /\ pReads = 3

PushStreamProtocolWitness ==
    /\ pStage = "done"
    /\ Len(fpData) = PushChunk + 1
    /\ Len(pushFrames) = 3
    /\ Len(pushFrames[1]) = PushChunk
    /\ Len(pushFrames[2]) = 1
    /\ pushRet = [kind |-> "ok", ret |-> <<49>>, err |-> <<>>]

(***************************************************************************)
(* The life of a peer: calls, close() and _cleanup                         *)
(***************************************************************************)
MaxLifeCalls == 2
MaxCleanups == 2

LifeOps == {"call", "callstream", "callpush"}
LifeResults == {<<>>, <<49>>}

\* What a write puts on the pipe: a closed pipe takes nothing.
written_anyway(closed, data) == data

written(closed, data) == IF closed THEN <<>> ELSE data

\* What the peer sends for an operation: the request, and for _callpush the
\* payload in a frame and the empty frame that ends it.
LifeBytes(op) ==
    sendrequest(PushCall.cmd, PushCall.args).bytes
    \o (IF op = "callpush" THEN Frame(<<97>>) \o Frame(<<>>) ELSE <<>>)

\* Where an operation on closed pipes raises ValueError: in the write on
\* the plain pipe; behind a doublepipe in procutil.readpipe on the closed
\* stderr, and if that returns nothing, in the flush of the closed pipe.
LifeRaises == IF pAuto THEN {"readpipe", "flush"} ELSE {"write"}

InitLife ==
    /\ pAuto \in BOOLEAN
    /\ pipei = <<>>
    /\ pipeo = <<>>
    /\ pFlushed = 0
    /\ pipee \in ErrData
    /\ pClosed = AllOpen
    /\ ui = <<>>
    /\ pStage = "connected"
    /\ pSent = <<>>
    /\ pTrail = <<>>
    /\ pLine = <<>>
    /\ pReads = 0
    /\ pErrs = 0
    /\ pPending = <<>>
    /\ pResult = NoResult
    /\ cleanups = 0
    /\ cleanupLog = <<>>
    /\ LifeOnly

\* _call, _callstream and _callpush from the request to the result; the
\* remote answers with r.
LifeCall ==
    /\ pReads < MaxLifeCalls
    /\ \E op \in LifeOps, r \in LifeResults, where \in LifeRaises :
        /\ pipeo' = pipeo \o written(pClosed.o, LifeBytes(op))
        /\ pFlushed' = Len(pipeo')
        /\ IF pClosed.o
           THEN /\ pResult' = [op |-> op, kind |-> "ValueError", val |-> <<>>, msg |-> where]
                /\ UNCHANGED <<ui, pipee, pReads>>
           ELSE /\ pResult' = [op |-> op, kind |-> "ok", val |-> r, msg |-> ""]
                /\ ui' = ui \o ForwardedNow
                /\ pipee' = ErrLeft
                /\ pReads' = pReads + 1
    /\ UNCHANGED <<pAuto, pipei, pClosed, pStage, pSent, pTrail, pLine, pErrs, pPending,
                   cleanups, cleanupLog, notLife>>

\* sshv1peer.close(): pass
LifeClose ==
    /\ pResult' = [op |-> "close", kind |-> "ok", val |-> <<>>, msg |-> ""]
    /\ UNCHANGED <<pAuto, pipei, pipeo, pFlushed, pipee, pClosed, ui, pStage, pSent, pTrail,
                   pLine, pReads, pErrs, pPending, cleanups, cleanupLog, notLife>>

\* The steps of _cleanuppipes.
CloseEvent(what) == [ev |-> "close", what |-> what, line |-> <<>>]
StatusEvent(l) == [ev |-> "status", what |-> "pipee", line |-> l]
ErrorEvent == [ev |-> "error", what |-> "pipee", line |-> <<>>]
NoError == 0 - 1

\* A teardown that closes stderr with the other two pipes and so passes
\* nothing on.
cleanuppipes_closefirst(eclosed, lines, failat) ==
    <<CloseEvent("pipeo"), CloseEvent("pipei"), CloseEvent("pipee")>>

\* _cleanuppipes: pipeo and pipei are closed, then the lines of pipee go to
\* the ui until its end or until the read raises (failat lines were read
\* by then; a pipee that is closed already raises ValueError at once), and
\* pipee is closed.
cleanuppipes(eclosed, lines, failat) ==
    LET n == IF eclosed THEN 0 ELSE IF failat = NoError THEN Len(lines) ELSE failat
    IN  <<CloseEvent("pipeo"), CloseEvent("pipei")>>
        \o [i \in 1..n |-> StatusEvent(lines[i])]
        \o (IF eclosed \/ failat # NoError THEN <<ErrorEvent>> ELSE <<>>)
        \o <<CloseEvent("pipee")>>

\* The lines a run of _cleanuppipes gave to ui.status.
StatusLines(log) ==
    LET st == SelectSeq(log, LAMBDA e : e.ev = "status")
    IN  [i \in 1..Len(st) |-> st[i].line]

\* sshv1peer._cleanup, also run as __del__: _cleanuppipes closes pipeo and
\* pipei, passes pipee to the ui line by line until its end and closes it;
\* reading a pipee that is closed already raises ValueError, which is caught.
LifeCleanup ==
    /\ cleanups < MaxCleanups
    /\ cleanups' = cleanups + 1
    /\ pClosed' = AllClosed
    /\ \E failat \in NoError..Len(cleanuplines(pipee)) :
           cleanupLog' = cleanuppipes(pClosed.e, cleanuplines(pipee), failat)
    /\ ui' = ui \o StatusLines(cleanupLog')
    /\ pipee' = <<>>
    /\ pStage' = "closed"
    /\ pResult' = [op |-> "cleanup", kind |-> "ok", val |-> <<>>, msg |-> ""]
    /\ UNCHANGED <<pAuto, pipei, pipeo, pFlushed, pSent, pTrail, pLine, pReads, pErrs,
                   pPending, notLife>>

LifeRemoteStderr ==
    /\ pErrs < MaxErrs
    /\ ~pClosed.e
    /\ pipee' = pipee \o ErrLine
    /\ pErrs' = pErrs + 1
    /\ UNCHANGED <<pAuto, pipei, pipeo, pFlushed, pClosed, ui, pStage, pSent, pTrail,
                   pLine, pReads, pPending, pResult, cleanups, cleanupLog,
                   notLife>>

NextLife ==
    \/ LifeCall
    \/ LifeClose
    \/ LifeCleanup
    \/ LifeRemoteStderr

SpecLife == InitLife /\ [][NextLife]_vars

\* C21: after close() has returned, the pipes of the peer are closed and no
\* diagnostic output is left unread on stderr.
CloseClosesAndDrains ==
    pResult.op = "close" => (pClosed = AllClosed /\ pipee = <<>>)

\* C22: _cleanup never raises and leaves the three pipes closed, however
\* often it runs; once it has run, no operation sends bytes, returns a
\* result, forwards anything or reopens a pipe.
TeardownTerminal ==
    [][/\ cleanups' # cleanups => (pResult'.kind = "ok" /\ pClosed' = AllClosed)
       /\ cleanups >= 1 =>
              /\ pClosed = AllClosed
              /\ pClosed' = AllClosed
              /\ pipeo' = pipeo
              /\ pFlushed' = pFlushed
              /\ ui' = ui
              /\ pResult'.op \in LifeOps => pResult'.kind = "ValueError"]_vars

TeardownTerminalWitness ==
    /\ cleanups = MaxCleanups
    /\ pResult.op \in LifeOps
    /\ pResult.kind = "ValueError"
    /\ pipeo # <<>>
    /\ ui # <<>>

(***************************************************************************)
(* cmdstate: the state file of a command                                   *)
(***************************************************************************)
MaxStoreOps == 3

\* Structured values.
IntValue(n) == [t |-> "int", n |-> n, b |-> <<>>, items |-> <<>>]
BytesValue(b) == [t |-> "bytes", n |-> 0, b |-> b, items |-> <<>>]
ListValue(items) == [t |-> "list", n |-> 0, b |-> <<>>, items |-> items]
MapValue(items) == [t |-> "map", n |-> 0, b |-> <<>>, items |-> items]

\* cborutil: an integer or a byte string as one CBOR item.
encodeitem(a) ==
    IF a.t = "int"
    THEN IF a.n < 0 THEN <<32 + (0 - 1 - a.n)>>
         ELSE IF a.n < 24 THEN <<a.n>>
         ELSE <<24, a.n>>
    ELSE <<64 + Len(a.b)>> \o a.b

\* cborutil.streamencode(data): the chunks of the encoding; a list or a map
\* (its keys and values alternating, in key order) is a length header
\* followed by its items.
streamencode(v) ==
    IF v.t = "list"
    THEN <<<<128 + Len(v.items)>>>> \o [i \in 1..Len(v.items) |-> encodeitem(v.items[i])]
    ELSE IF v.t = "map"
    THEN <<<<160 + (Len(v.items) \div 2)>>>>
         \o [i \in 1..Len(v.items) |-> encodeitem(v.items[i])]
    ELSE <<encodeitem(v)>>

\* One integer or byte string decoded at position pos of buf.
decodeitem(buf, pos) ==
    IF pos > Len(buf) THEN [ok |-> FALSE, val |-> NoValue, next |-> pos]
    ELSE IF buf[pos] < 24 THEN [ok |-> TRUE, val |-> IntValue(buf[pos]), next |-> pos + 1]
    ELSE IF buf[pos] = 24 /\ pos < Len(buf)
         THEN [ok |-> TRUE, val |-> IntValue(buf[pos + 1]), next |-> pos + 2]
    ELSE IF buf[pos] >= 32 /\ buf[pos] < 56
         THEN [ok |-> TRUE, val |-> IntValue(0 - 1 - (buf[pos] - 32)), next |-> pos + 1]
    ELSE IF buf[pos] >= 64 /\ buf[pos] < 88 /\ pos + (buf[pos] - 64) <= Len(buf)
         THEN [ok |-> TRUE, val |-> BytesValue(SubSeq(buf, pos + 1, pos + (buf[pos] - 64))),
               next |-> pos + (buf[pos] - 64) + 1]
    ELSE [ok |-> FALSE, val |-> NoValue, next |-> pos]

\* k items decoded from position pos of buf.
RECURSIVE decodeitems(_, _, _)
decodeitems(buf, pos, k) ==
    IF k = 0 THEN [ok |-> TRUE, vals |-> <<>>, next |-> pos]
    ELSE LET first == decodeitem(buf, pos)
             rest == decodeitems(buf, first.next, k - 1)
         IN  IF first.ok /\ rest.ok
             THEN [ok |-> TRUE, vals |-> <<first.val>> \o rest.vals, next |-> rest.next]
             ELSE [ok |-> FALSE, vals |-> <<>>, next |-> pos]

\* One top-level value decoded at position pos of buf.
decodevalue(buf, pos) ==
    IF pos <= Len(buf) /\ buf[pos] >= 128 /\ buf[pos] < 152
    THEN LET d == decodeitems(buf, pos + 1, buf[pos] - 128)
         IN  [ok |-> d.ok, val |-> ListValue(d.vals), next |-> d.next]
    ELSE IF pos <= Len(buf) /\ buf[pos] >= 160 /\ buf[pos] < 184
    THEN LET d == decodeitems(buf, pos + 1, 2 * (buf[pos] - 160))
         IN  [ok |-> d.ok, val |-> MapValue(d.vals), next |-> d.next]
    ELSE decodeitem(buf, pos)

\* cborutil.decodeall(buf): all the top-level values of buf, from pos on.
RECURSIVE decodefrom(_, _)
decodefrom(buf, pos) ==
    IF pos > Len(buf) THEN [ok |-> TRUE, vals |-> <<>>]
    ELSE LET first == decodevalue(buf, pos)
             rest == decodefrom(buf, first.next)
         IN  IF first.ok /\ rest.ok
             THEN [ok |-> TRUE, vals |-> <<first.val>> \o rest.vals]
             ELSE [ok |-> FALSE, vals |-> <<>>]

decodeall(buf) == decodefrom(buf, 1)

\* '%d' % version
formatversion(v) == IF v < 0 THEN <<MINUS>> \o FormatInt(0 - v) ELSE FormatInt(v)

\* isinstance(version, int)
isint_any(version) == TRUE

isint(version) == version.t = "int"

\* The except clause of _read: an unreadable version line is an error.
versionerror_none(line) == FALSE

versionerror(line) == ~ParseInt(line).ok

\* atomictemp=True: the writes of save go to a temporary file that replaces
\* the state file when it is closed without an error.
atomictemp_off == FALSE

atomictemp == TRUE

\* A file opened for appending.
wb_append(old, data) == old \o data

\* Mode 'wb': what is written takes the place of all the file held before.
wb(old, data) == data

\* ignoremissing=True: unlinking a missing file is not an error.
ignoremissing_off == FALSE

ignoremissing == TRUE

readstate_whole(data) ==
    LET d == decodeall(data)
    IN  IF ~d.ok \/ d.vals = <<>> THEN [kind |-> "CBORDecodingError", val |-> NoValue]
        ELSE [kind |-> "ok", val |-> d.vals[1]]

\* cmdstate._read on the content of the state file: [kind, val]
readstate(data) ==
    LET rl == ReadLine(data)
        d == decodeall(rl.rest)
    IN  IF versionerror(rl.line) THEN [kind |-> "CorruptedState", val |-> NoValue]
        ELSE IF ~d.ok THEN [kind |-> "CBORDecodingError", val |-> NoValue]
        ELSE IF d.vals = <<>> THEN [kind |-> "IndexError", val |-> NoValue]
        ELSE [kind |-> "ok", val |-> d.vals[1]]

StoreVersions ==
    {IntVersion(12), IntVersion(0 - 1), [t |-> "float", val |-> 1],
     [t |-> "str", val |-> 0]}
StorePayloads ==
    { IntValue(10), IntValue(100), IntValue(0 - 2), BytesValue(<<97, NL>>),
      ListValue(<<IntValue(1), BytesValue(<<98>>)>>),
      MapValue(<<BytesValue(<<97>>), IntValue(1)>>) }

\* State files that something other than save left behind.
ForeignFiles ==
    { <<>>,
      <<120, NL, 1>>,
      <<NL, 1>>,
      <<49>>,
      <<49, NL>>,
      <<49, NL, 1, 2>>,
      <<49, NL, 66, 97>>,
      <<SP, PLUS, 49, SP, NL, 1>>,
      <<49, 120, NL, 1>> }

InitStore ==
    /\ stFile = NoFile
    /\ stTemp = NoTemp
    /\ stSave = NoSave
    /\ stPrev = NoFile
    /\ stOut = NoOut
    /\ stOps = 0
    /\ stLast = NoLast
    /\ StoreOnly

StoreQuiet == stSave.pc \notin {"opened", "writing"}

\* save(version, data) up to the opening of the file.
StSaveBegin ==
    /\ StoreQuiet
    /\ stOps < MaxStoreOps
    /\ stOps' = stOps + 1
    /\ stPrev' = stFile
    /\ stLast' = stLast
    /\ \E version \in StoreVersions, data \in StorePayloads :
        IF ~isint(version)
        THEN /\ stOut' = [op |-> "save", kind |-> "ProgrammingError", val |-> data,
                          found |-> FALSE, version |-> version]
             /\ UNCHANGED <<stFile, stTemp, stSave>>
        ELSE /\ stOut' = [op |-> "save", kind |-> "running", val |-> data,
                          found |-> FALSE, version |-> version]
             /\ stSave' = [pc |-> "opened", version |-> version, payload |-> data,
                           chunks |-> streamencode(data)]
             /\ stTemp' = IF atomictemp THEN [open |-> TRUE, data |-> <<>>] ELSE stTemp
             /\ stFile' = IF atomictemp THEN stFile ELSE [exists |-> TRUE, data |-> <<>>]
    /\ UNCHANGED notStore

\* fp.write('%d\n' % version); a version '%d' cannot format ends the save
\* with TypeError and the file is discarded.
StSaveVersion ==
    /\ stSave.pc = "opened"
    /\ IF stSave.version.t = "str"
       THEN /\ stOut' = [stOut EXCEPT !.kind = "TypeError"]
            /\ stSave' = NoSave
            /\ stTemp' = NoTemp
            /\ stFile' = stFile
       ELSE /\ stOut' = stOut
            /\ stSave' = [stSave EXCEPT !.pc = "writing"]
            /\ \E line \in {formatversion(stSave.version.val) \o <<NL>>} :
                /\ stTemp' = IF atomictemp THEN [stTemp EXCEPT !.data = line] ELSE stTemp
                /\ stFile' = IF atomictemp THEN stFile
                             ELSE [stFile EXCEPT !.data = line]
    /\ UNCHANGED <<stPrev, stOps, stLast, notStore>>

\* for chunk in cborutil.streamencode(data): fp.write(chunk)
StSaveChunk ==
    /\ stSave.pc = "writing"
    /\ stSave.chunks # <<>>
    /\ stSave' = [stSave EXCEPT !.chunks = Tail(stSave.chunks)]
    /\ stTemp' = IF atomictemp THEN [stTemp EXCEPT !.data = @ \o Head(stSave.chunks)]
                 ELSE stTemp
    /\ stFile' = IF atomictemp THEN stFile
                 ELSE [stFile EXCEPT !.data = @ \o Head(stSave.chunks)]
    /\ UNCHANGED <<stPrev, stOut, stOps, stLast, notStore>>

\* The end of the with block: the file is closed, which puts the temporary
\* file in the place of the state file.
StSaveClose ==
    /\ stSave.pc = "writing"
    /\ stSave.chunks = <<>>
    /\ stFile' = IF atomictemp THEN [exists |-> TRUE, data |-> wb(stFile.data, stTemp.data)]
                 ELSE stFile
    /\ stTemp' = NoTemp
    /\ stSave' = [stSave EXCEPT !.pc = "saved"]
    /\ stOut' = [stOut EXCEPT !.kind = "ok"]
    /\ stLast' = [op |-> "save", version |-> stSave.version.val, payload |-> stSave.payload]
    /\ UNCHANGED <<stPrev, stOps, notStore>>

\* The process stops during save; the temporary file is left behind under
\* its own name.
StCrash ==
    /\ stSave.pc \in {"opened", "writing"}
    /\ stSave' = [stSave EXCEPT !.pc = "crashed"]
    /\ stOut' = [stOut EXCEPT !.kind = "crashed"]
    /\ stTemp' = [stTemp EXCEPT !.open = FALSE]
    /\ UNCHANGED <<stFile, stPrev, stOps, stLast, notStore>>

\* read()
StRead ==
    /\ StoreQuiet
    /\ stOps < MaxStoreOps
    /\ stOps' = stOps + 1
    /\ \E r \in (IF stFile.exists THEN {readstate(stFile.data)}
                 ELSE {[kind |-> "IOError", val |-> NoValue]}) :
        stOut' = [op |-> "read", kind |-> r.kind, val |-> r.val, found |-> FALSE,
                  version |-> IntVersion(0)]
    /\ UNCHANGED <<stFile, stTemp, stSave, stPrev, stLast, notStore>>

\* delete()
StDelete ==
    /\ StoreQuiet
    /\ stOps < MaxStoreOps
    /\ stOps' = stOps + 1
    /\ stFile' = IF stFile.exists THEN NoFile ELSE stFile
    /\ stOut' = [op |-> "delete",
                 kind |-> IF stFile.exists \/ ignoremissing THEN "ok" ELSE "OSError",
                 val |-> NoValue, found |-> FALSE, version |-> IntVersion(0)]
    /\ stSave' = IF stFile.exists THEN NoSave ELSE stSave
    /\ stLast' = IF stOut'.kind = "ok" THEN [NoLast EXCEPT !.op = "delete"] ELSE stLast
    /\ UNCHANGED <<stTemp, stPrev, notStore>>

\* exists()
StExists ==
    /\ StoreQuiet
    /\ stOps < MaxStoreOps
    /\ stOps' = stOps + 1
    /\ stOut' = [op |-> "exists", kind |-> "ok", val |-> NoValue, found |-> stFile.exists,
                 version |-> IntVersion(0)]
    /\ UNCHANGED <<stFile, stTemp, stSave, stPrev, stLast, notStore>>

\* Something other than save writes the state file.
StForeign ==
    /\ StoreQuiet
    /\ stOps < MaxStoreOps
    /\ stOps' = stOps + 1
    /\ \E data \in ForeignFiles : stFile' = [exists |-> TRUE, data |-> data]
    /\ stOut' = [op |-> "foreign", kind |-> "ok", val |-> NoValue, found |-> FALSE,
                 version |-> IntVersion(0)]
    /\ stSave' = NoSave
    /\ stLast' = [NoLast EXCEPT !.op = "foreign"]
    /\ UNCHANGED <<stTemp, stPrev, notStore>>

NextStore ==
    \/ StSaveBegin
    \/ StSaveVersion
    \/ StSaveChunk
    \/ StSaveClose
    \/ StCrash
    \/ StRead
    \/ StDelete
    \/ StExists
    \/ StForeign

SpecStore == InitStore /\ [][NextStore]_vars

\* C23: a read of the file a save(version, payload) wrote returns payload,
\* whatever the version; the file is the version line followed by the
\* encoding of the payload.
SavedFile ==
    [exists |-> TRUE,
     data |-> formatversion(stSave.version.val) \o <<NL>>
              \o Concat(streamencode(stSave.payload))]

StoreRoundTrip ==
    /\ stSave.pc = "saved" => stFile = SavedFile
    /\ (stSave.pc = "saved" /\ stOut.op = "read") =>
           (stOut.kind = "ok" /\ stOut.val = stSave.payload)

StoreRoundTripWitness ==
    /\ stSave.pc = "saved"
    /\ stOut.op = "read"
    /\ stOut.val = ListValue(<<IntValue(1), BytesValue(<<98>>)>>)
    /\ stSave.version.val = 12

\* C24: a save whose version is not an integer fails with ProgrammingError;
\* the state file is as it was before, present or not, and no file is open.
SaveRejectsNonInteger ==
    (stOut.op = "save" /\ stOut.version.t # "int") =>
        /\ stOut.kind = "ProgrammingError"
        /\ stFile = stPrev
        /\ ~stTemp.open

SaveRejectsNonIntegerWitness ==
    /\ stOut.op = "save"
    /\ stOut.version.t = "float"
    /\ stOut.kind = "ProgrammingError"
    /\ stFile.exists
    /\ stFile = stPrev

\* C25: a read of a state file whose first line is not a decimal integer
\* (digits, a sign and surrounding whitespace allowed) fails with
\* CorruptedState, whatever follows the line, and the file stays as it is.
DecimalLine(l) ==
    LET t == Strip(l)
        d == IF t # <<>> /\ t[1] \in {PLUS, MINUS} THEN Tail(t) ELSE t
    IN  d # <<>> /\ \A i \in 1..Len(d) : d[i] \in Digits
ReadStep == stOut'.op = "read" /\ stOps' = stOps + 1

BadVersionIsCorrupted ==
    [][(ReadStep /\ stFile.exists /\ ~DecimalLine(ReadLine(stFile.data).line)) =>
          (stOut'.kind = "CorruptedState" /\ stFile' = stFile)]_vars

BadVersionIsCorruptedWitness ==
    /\ stOut.op = "read"
    /\ stOut.kind = "CorruptedState"
    /\ stFile = [exists |-> TRUE, data |-> <<120, NL, 1>>]

\* C26: a read fails with CorruptedState when what follows a valid version
\* line does not decode to exactly one value.
ValuesAfterVersion == decodeall(ReadLine(stFile.data).rest)

NotOneValueIsCorrupted ==
    (/\ stOut.op = "read"
     /\ stFile.exists
     /\ DecimalLine(ReadLine(stFile.data).line)
     /\ ValuesAfterVersion.ok
     /\ Len(ValuesAfterVersion.vals) # 1) => stOut.kind = "CorruptedState"

\* C27: while a save is under way and after the process stopped in it, the
\* state file is what it was when the save began; after the save it is the
\* complete new file; so exists() and read() after a crash see the old state.
SaveIsAtomic ==
    /\ stSave.pc \in {"opened", "writing", "crashed"} => stFile = stPrev
    /\ stSave.pc = "saved" => stFile = SavedFile
    /\ (stSave.pc = "crashed" /\ stOut.op = "exists") => stOut.found = stPrev.exists
    /\ (stSave.pc = "crashed" /\ stOut.op = "read" /\ ~stPrev.exists) =>
           stOut.kind = "IOError"

SaveIsAtomicWitness ==
    /\ stSave.pc = "crashed"
    /\ stTemp.data # <<>>
    /\ stPrev.exists
    /\ stFile = stPrev
    /\ stOut.op = "read"
    /\ stOut.kind = "ok"

\* C28: delete raises nothing and leaves no state file, changing nothing
\* when there was none; exists() tells whether the file is there; a missing
\* file only comes into being by a save that completes (or by another writer).
DeleteStep == stOut'.op = "delete" /\ stOps' = stOps + 1

DeleteIsIdempotent ==
    [][/\ DeleteStep =>
              /\ stOut'.kind = "ok"
              /\ ~stFile'.exists
              /\ ~stFile.exists => stFile' = stFile
       /\ (stOut'.op = "exists" /\ stOps' = stOps + 1) => stOut'.found = stFile.exists
       /\ (~stFile.exists /\ stFile'.exists) =>
              \/ stOut'.op = "save" /\ stOut'.kind = "ok"
              \/ stOut'.op = "foreign"]_vars

DeleteIsIdempotentWitness ==
    /\ stOut.op = "delete"
    /\ stOut.kind = "ok"
    /\ stOps = 1
    /\ ~stFile.exists

(***************************************************************************)
(* The registry of unfinished operations                                   *)
(***************************************************************************)
MaxRegistered == 4

StateCheck(opname, fname) == [opname |-> opname, fname |-> fname]
UpdateState == StateCheck("update", "updatestate")
BisectState == StateCheck("bisect", "bisect.state")

\* The descriptors registered after the two of state.py; fname is None for
\* merge.
RegDescriptors ==
    {StateCheck("graft", "graftstate"), StateCheck("rebase", "rebasestate"),
     StateCheck("merge", "None")}
RegFiles == {"updatestate", "bisect.state", "graftstate", "rebasestate"}
RegSkips == {{}, {"rebase"}, {"merge", "bisect"}}

\* A registration that puts every descriptor, merge too, at the front.
addunfinished_front(states, statecheckobj) == <<statecheckobj>> \o states

addunfinished_append(states, statecheckobj) == Append(states, statecheckobj)

\* addunfinished: merge goes to the end of the list, any other to its front.
addunfinished(states, statecheckobj) ==
    IF statecheckobj.opname = "merge" THEN Append(states, statecheckobj)
    ELSE <<statecheckobj>> \o states

isunfinished_file(state) == state.fname \in repoFiles

\* _statecheck.isunfinished(repo)
isunfinished(state) ==
    IF state.opname = "merge" THEN repoParents > 1
    ELSE state.fname \in repoFiles

\* A detection that does not look at the skip set.
getrepostate_noskip ==
    LET hits == {i \in 1..Len(unfinishedstates) : isunfinished(unfinishedstates[i])}
        first == CHOOSE i \in hits : \A j \in hits : i <= j
    IN  IF hits = {} THEN [called |-> TRUE, found |-> FALSE, opname |-> ""]
        ELSE [called |-> TRUE, found |-> TRUE, opname |-> unfinishedstates[first].opname]

\* getrepostate(repo): the first state of the list that is not skipped and
\* is unfinished, or None.
getrepostate ==
    LET hits == {i \in 1..Len(unfinishedstates) :
                    /\ unfinishedstates[i].opname \notin skip
                    /\ isunfinished(unfinishedstates[i])}
        first == CHOOSE i \in hits : \A j \in hits : i <= j
    IN  IF hits = {} THEN [called |-> TRUE, found |-> FALSE, opname |-> ""]
        ELSE [called |-> TRUE, found |-> TRUE, opname |-> unfinishedstates[first].opname]

\* The registry as the import of state.py leaves it.
InitReg ==
    /\ unfinishedstates = addunfinished(addunfinished(<<>>, UpdateState), BisectState)
    /\ registered = <<UpdateState, BisectState>>
    /\ repoFiles = {}
    /\ repoParents = 1
    /\ skip \in RegSkips
    /\ repostate = NoState
    /\ RegOnly

RegAdd ==
    /\ Len(registered) < MaxRegistered
    /\ \E d \in RegDescriptors :
        /\ unfinishedstates' = addunfinished(unfinishedstates, d)
        /\ registered' = Append(registered, d)
    /\ repostate' = NoState
    /\ UNCHANGED <<repoFiles, repoParents, skip, notReg>>

\* A state file appears in .hg, or goes away.
RegFile ==
    /\ \E f \in RegFiles :
        repoFiles' = IF f \in repoFiles THEN repoFiles \ {f} ELSE repoFiles \cup {f}
    /\ repostate' = NoState
    /\ UNCHANGED <<unfinishedstates, registered, repoParents, skip, notReg>>

\* The working copy gets a second parent, or loses it.
RegParents ==
    /\ repoParents' = IF repoParents = 1 THEN 2 ELSE 1
    /\ repostate' = NoState
    /\ UNCHANGED <<unfinishedstates, registered, repoFiles, skip, notReg>>

RegDetect ==
    /\ repostate' = getrepostate
    /\ UNCHANGED <<unfinishedstates, registered, repoFiles, repoParents, skip, notReg>>

NextReg ==
    \/ RegAdd
    \/ RegFile
    \/ RegParents
    \/ RegDetect

SpecReg == InitReg /\ [][NextReg]_vars

\* C29: when some registered descriptor that is not merge and not skipped
\* has its state file, detection returns the one of them registered last.
FileCandidates ==
    {i \in 1..Len(registered) :
        /\ registered[i].opname # "merge"
        /\ registered[i].opname \notin skip
        /\ registered[i].fname \in repoFiles}
LastCandidate == CHOOSE i \in FileCandidates : \A j \in FileCandidates : j <= i

MostRecentWins ==
    (repostate.called /\ FileCandidates # {}) =>
        /\ repostate.found
        /\ repostate.opname = registered[LastCandidate].opname

MostRecentWinsWitness ==
    /\ repostate.called
    /\ \E i, j \in FileCandidates :
           /\ i < j
           /\ j = LastCandidate
           /\ j > 2
           /\ registered[i].opname # registered[j].opname
           /\ repostate.opname = registered[j].opname

\* C30: the statement that two parents always give 'merge', and what holds:
\* merge is reported when it is registered and not skipped, the working copy
\* has two parents, and no candidate of C29 has its state file; the merge
\* descriptors are at the end of the list whatever the registration order,
\* and merge is never reported for a working copy with one parent.
MergeRegistered == \E i \in 1..Len(registered) : registered[i].opname = "merge"

TwoParentsAlwaysMerge ==
    (repostate.called /\ repoParents = 2) =>
        (repostate.found /\ repostate.opname = "merge")

TwoParentsMergeLast ==
    /\ (/\ repostate.called
        /\ repoParents = 2
        /\ MergeRegistered
        /\ "merge" \notin skip
        /\ FileCandidates = {}) => (repostate.found /\ repostate.opname = "merge")
    /\ (repostate.called /\ repostate.opname = "merge") => repoParents = 2
    /\ \A i, j \in 1..Len(unfinishedstates) :
           (i < j /\ unfinishedstates[i].opname = "merge") =>
               unfinishedstates[j].opname = "merge"

TwoParentsMergeLastWitness ==
    /\ repostate.called
    /\ repostate.opname = "merge"
    /\ repoFiles # {}
    /\ registered[Len(registered)].opname # "merge"

\* C31: a detection never returns a descriptor whose name is in the skip
\* set, returns none exactly when no registered descriptor outside the skip
\* set is pending (its state file exists, or for merge the working copy has
\* two parents), and changes neither the registry nor a state file.
Pending(d) ==
    IF d.opname = "merge" THEN repoParents = 2 ELSE d.fname \in repoFiles
PendingUnskipped ==
    {i \in 1..Len(registered) :
        registered[i].opname \notin skip /\ Pending(registered[i])}

DetectionHonoursSkip ==
    [][repostate'.called =>
        /\ repostate'.found => repostate'.opname \notin skip
        /\ repostate'.found =>
               \E i \in PendingUnskipped : registered[i].opname = repostate'.opname
        /\ ~repostate'.found <=> PendingUnskipped = {}
        /\ UNCHANGED <<unfinishedstates, registered, repoFiles, repoParents, skip>>]_vars

DetectionHonoursSkipWitness ==
    /\ repostate.called
    /\ \E i \in 1..Len(registered) :
           /\ registered[i].opname \in skip
           /\ registered[i].opname # "merge"
           /\ registered[i].fname \in repoFiles
    /\ \/ ~repostate.found
       \/ \E i, j \in 1..Len(unfinishedstates) :
              /\ i < j
              /\ unfinishedstates[i].opname \in skip
              /\ unfinishedstates[i].fname \in repoFiles
              /\ unfinishedstates[j].opname = repostate.opname

\* C38: the list holds one descriptor per registration, none lost and
\* duplicates kept; its descriptors that are not merge stand first, in
\* the reverse of their registration order, and the merge descriptors
\* after them; so a detection reports merge only when no descriptor
\* outside the skip set has its state file.
IsMerge(d) == d.opname = "merge"
NotMerge(d) == d.opname # "merge"
Reversed(s) == [i \in 1..Len(s) |-> s[Len(s) + 1 - i]]

RegistryShape ==
    /\ Len(unfinishedstates) = Len(registered)
    /\ unfinishedstates =
           Reversed(SelectSeq(registered, NotMerge)) \o SelectSeq(registered, IsMerge)
    /\ (repostate.called /\ repostate.opname = "merge") => FileCandidates = {}

RegistryShapeWitness ==
    /\ Len(registered) = 4
    /\ IsMerge(registered[3])
    /\ NotMerge(registered[4])
    /\ repostate.called
    /\ repostate.opname = "merge"
    /\ repoFiles # {}

\* C32: what the handshake has written to stdin is nothing before the
\* request step, and from then on the line 'upgrade <token> <params>' if and
\* only if the upgrade is advertised, 'hello', 'between', 'pairs 81' and the
\* 81 bytes of the null range, in this order; all of it is written and
\* flushed in every state in which a response line is read or has been read.
Zeros40 == [i \in 1..40 |-> ZERO]
UpgradeLine == UPGRADE \o <<SP>> \o Token \o <<SP>> \o upgradecaps \o <<NL>>
HelloBetween ==
    <<104, 101, 108, 108, 111, NL>> \o <<98, 101, 116, 119, 101, 101, 110, NL>>
    \o <<112, 97, 105, 114, 115, SP, 56, 49, NL>>
    \o Zeros40 \o <<MINUS>> \o Zeros40
ExpectedRequest == IF hsAdvertise THEN UpgradeLine \o HelloBetween ELSE HelloBetween
HsReading == hsPc \in {"scanning", "upgraded", "done"} \/ hsNoise < max_noise \/ hsAck # <<>>

RequestBeforeResponse ==
    /\ hsPc = "start" => (pipeo = <<>> /\ hsNoise = max_noise /\ hsAck = <<>>)
    /\ HsReading => (pipeo = ExpectedRequest /\ pFlushed = Len(pipeo))
    /\ pipeo \in {<<>>, ExpectedRequest}

RequestBeforeResponseWitness ==
    /\ hsPc = "done"
    /\ hsAdvertise
    /\ hsNoise < max_noise
    /\ Len(pipeo) = Len(UpgradeLine) + 104
    /\ pFlushed = Len(pipeo)

\* C33: the scan of the response ends whatever the remote delivers: every
\* turn of the loop either leaves it or uses one unit of a budget of 500
\* that never goes below zero, and the loop is only ever entered with
\* budget left and a non-empty last line. It is left on an upgrade
\* acknowledgement, on the blank line after a '1' line, on an empty read
\* or with the budget used up (or on an I/O error); the empty read and the
\* used-up budget are failures, and the '1' + blank line terminator is
\* taken while budget is left, up to the 500th line read.
ScanTerminates ==
    [][/\ hsNoise' \in 0..500
       /\ hsPc = "scanning" =>
              /\ hsNoise >= 1
              /\ hsLast # <<>>
              /\ \/ hsPc' # "scanning"
                 \/ hsNoise' = hsNoise - 1 /\ hsLast' # <<>>
       /\ (hsPc = "scanning" /\ hsPc' # "scanning") =>
              hsEnd'.how \in {"upgraded", "between", "eof", "noise", "ioerror"}
       /\ hsEnd'.how = "eof" => (hsPc' = "failed" /\ hsLast' = <<>>)
       /\ hsEnd'.how = "noise" => (hsPc' = "failed" /\ hsNoise' = 0)
       /\ hsEnd'.how = "between" =>
              /\ hsNoise' >= 1
              /\ hsLast' = ONELINE
              /\ hsPc' \in {"done", "failed"}
              /\ hsCapsLine' = FOOBAR => hsPc' = "done"]_vars

ScanTerminatesWitness ==
    /\ hsPc = "done"
    /\ hsEnd.how = "between"
    /\ hsNoise = 1

\* C34: on the version 1 path the capabilities come from the last collected
\* line that begins with 'capabilities:' and from no other: each collected
\* line (hsLast after the turn) that begins with the marker takes the place
\* of the one collected before, any other collected line leaves it, and
\* when the scan ends on the '1' + blank line the capabilities are those of
\* that line; after the end of the handshake no line is read and the
\* capabilities stay.
HsCollected == hsPc = "scanning" /\ hsNoise' = hsNoise - 1
HsTokens(line) ==
    IF line = FOOBAR THEN {<<102, 111, 111>>, <<98, 97, 114>>}
    ELSE IF line = ACOLONB THEN {<<97>>}
    ELSE {}

LastCapsLineOnly ==
    [][/\ HsCollected =>
              IF StartsWith(hsLast', CAPSMARK)
              THEN hsCapsLine' = hsLast'
              ELSE hsCapsLine' = hsCapsLine
       /\ (hsPc = "scanning" /\ ~HsCollected) => hsCapsLine' = hsCapsLine
       /\ (hsPc = "scanning" /\ hsEnd'.how = "between") =>
              /\ hsCaps' = HsTokens(hsCapsLine)
              /\ hsPc' = "done" <=> HsTokens(hsCapsLine) # {}
       /\ hsPc \in {"done", "failed"} =>
              UNCHANGED <<hsCaps, hsCapsLine, hsLast, hsNoise, hsProto, pipei>>]_vars

LastCapsLineOnlyWitness ==
    /\ hsPc = "done"
    /\ hsEnd.how = "between"
    /\ hsCapsLine = ACOLONB
    /\ hsCaps = {<<97>>}
    /\ hsNoise < max_noise - 3

\* C37: a handshake that succeeds returns SSHV1 or SSHV2, so makepeer
\* picks one of its two peer classes and never its 'unknown version'
\* branch; an acknowledgement that names another version ends in the bad
\* response failure with the pipes closed; and the version is set only by
\* the turn of the scan that reads the acknowledgement, never afterwards.
KnownVersions == {SSHV1, SSHV2}

VersionIsKnown ==
    [][/\ hsPc' = "done" =>
              /\ hsProto' \in KnownVersions
              /\ peerclass(hsProto') \in {"sshv1peer", "sshv2peer"}
       /\ hsProto' \notin KnownVersions =>
              /\ hsPc' = "failed"
              /\ hsEnd'.msg = NOSUITABLE
              /\ hsCaps' = {}
              /\ pClosed' = AllClosed
       /\ hsProto' # hsProto =>
              /\ hsPc = "scanning"
              /\ hsAck = <<>>
              /\ hsAck' # <<>>
       /\ hsAck # <<>> => hsProto' = hsProto]_vars

VersionIsKnownWitness ==
    /\ hsAck = UPGRADEDV9
    /\ hsProto = <<118, 57>>
    /\ hsPc = "failed"
    /\ hsEnd.how = "upgraded"
    /\ hsNoise < max_noise

\* C39, as stated: a call whose argument map lacks an argument that the
\* command declares fails without having written a byte to the remote, the
\* command line included.
MissingArgumentWritesNothing ==
    (pResult.op = "call" /\ pResult.kind = "KeyError") => pipeo = <<>>

\* C35: _cleanuppipes closes pipeo (stdin) and pipei (stdout) first, then
\* passes stderr to the ui line by line, and closes stderr last: when no
\* read fails, every line left on stderr is passed on; when a read fails,
\* the lines read until then are passed on, the error goes no further, and
\* stderr is closed all the same.
LogStatuses(log) == SubSeq(log, 3, Len(log) - (IF log[Len(log) - 1].ev = "error" THEN 2 ELSE 1))

TeardownOrder ==
    [][cleanups' # cleanups =>
        \E log \in {cleanupLog'} :
            /\ Len(log) >= 3
            /\ log[1] = [ev |-> "close", what |-> "pipeo", line |-> <<>>]
            /\ log[2] = [ev |-> "close", what |-> "pipei", line |-> <<>>]
            /\ log[Len(log)] = [ev |-> "close", what |-> "pipee", line |-> <<>>]
            /\ \A i \in 1..Len(LogStatuses(log)) :
                   /\ LogStatuses(log)[i].ev = "status"
                   /\ i <= Len(cleanuplines(pipee))
                   /\ LogStatuses(log)[i].line = cleanuplines(pipee)[i]
            /\ (log[Len(log) - 1].ev # "error" /\ ~pClosed.e) =>
                   Len(LogStatuses(log)) = Len(cleanuplines(pipee))
            /\ ui' = ui \o [i \in 1..Len(LogStatuses(log)) |-> LogStatuses(log)[i].line]
            /\ pClosed' = AllClosed
            /\ pResult'.kind = "ok"]_vars

TeardownOrderWitness ==
    /\ Len(cleanupLog) = 5
    /\ cleanupLog[3].ev = "status"
    /\ cleanupLog[4].ev = "error"
    /\ cleanupLog[5].what = "pipee"
    /\ pClosed = AllClosed
    /\ pResult.kind = "ok"
    /\ cleanups = 1

\* C36: whatever saves (completed, rejected or broken off), reads, exists
\* and deletes were made on a slot that no other writer touched since,
\* exists() is true exactly when the last operation that changed the slot
\* was a completed save, the slot then holds the record of that save alone
\* and read() returns its payload; after a delete or before any save the
\* slot is missing; and read and exists leave the slot as it is.
LastRecord ==
    [exists |-> TRUE,
     data |-> formatversion(stLast.version) \o <<NL>> \o Concat(streamencode(stLast.payload))]
LookStep == stOps' = stOps + 1 /\ stOut'.op \in {"read", "exists"}

SlotLifecycle ==
    [][/\ stLast'.op = "save" => stFile' = LastRecord'
       /\ stLast'.op \in {"none", "delete"} => ~stFile'.exists
       /\ (stOut'.op = "exists" /\ stLast'.op # "foreign") =>
              (stOut'.found <=> stLast'.op = "save")
       /\ (stOut'.op = "read" /\ stLast'.op = "save") =>
              (stOut'.kind = "ok" /\ stOut'.val = stLast'.payload)
       /\ (stOut'.op = "read" /\ stLast'.op \in {"none", "delete"}) =>
              stOut'.kind = "IOError"
       /\ LookStep => UNCHANGED <<stFile, stTemp, stLast>>
       /\ stLast' # stLast =>
              \/ stOut'.op = "save" /\ stOut'.kind = "ok"
              \/ stOut'.op \in {"delete", "foreign"} /\ stOps' = stOps + 1]_vars

SlotLifecycleWitness ==
    /\ stLast.op = "save"
    /\ stOut.op = "read"
    /\ stOut.val = stLast.payload
    /\ stPrev.exists
    /\ stPrev # stFile
    /\ decodeall(ReadLine(stPrev.data).rest).ok
    /\ stOps = 3

\* C40, as stated: an operation on the wrapper ends once the main pipe has
\* become ready, that is once _wait can report it ready.
DpMainReady == dpKind = "out" \/ dpBuf # <<>> \/ dpMain # <<>> \/ dpEof

DpMainAvailable ==
    \/ DpNoData(dpCall)
    \/ dpClosed.main
    \/ dpCall.op = "write"
    \/ dpEof
    \/ dpCall.op = "read" /\ Len(dpBuf) + Len(dpMain) >= dpCall.size
    \/ dpCall.op = "readline" /\ \E i \in 1..Len(dpBuf \o dpMain) : (dpBuf \o dpMain)[i] = NL
DpMainCalls == {i \in 1..Len(dpTrace) : dpTrace[i].ev = "main"}

DpSideOnlyRepeats ==
    /\ \A i \in 1..Len(dpTrace) :
           (dpTrace[i].ev = "wait" /\ ~dpTrace[i].main) =>
               /\ dpTrace[i].side
               /\ i + 2 <= Len(dpTrace) => dpTrace[i + 2].ev = "wait"
    /\ \A i \in 1..Len(dpTrace) :
           (dpTrace[i].ev = "wait" /\ dpTrace[i].side) =>
               /\ i < Len(dpTrace)
               /\ dpTrace[i + 1].ev = "forward"
               /\ dpTrace[i + 1].data = dpTrace[i].avail
    /\ \A i \in 1..Len(dpTrace) :
           (dpTrace[i].ev = "wait" /\ dpTrace[i].main) =>
               \E j \in DpMainCalls : j > i /\ j <= i + 2
    /\ Cardinality(DpMainCalls) <= 1
    /\ \A j \in DpMainCalls : \A k \in (j + 1)..Len(dpTrace) :
           dpTrace[k].ev = "forward" /\ dpTrace[k].by = "read"
    /\ (dpCall.op # "none" /\ dpCall.blocked) => DpMainCalls # {}

====
